---- MODULE Spec2Model ----
(***************************************************************************)
(* Model of the schedule generator of backend/ismis_scheduler.py:          *)
(* parse_schedule, schedules_conflict, has_schedule_conflict, the          *)
(* backtracking search of generate_schedule_combinations, is_course_full   *)
(* and get_schedule_status.                                                *)
(*                                                                         *)
(* A schedule text is a sequence of one-character strings, so that the     *)
(* regular expressions of parse_schedule are matched character by          *)
(* character.  Python's None is the value None below.                      *)
(***************************************************************************)
EXTENDS Integers, Sequences, FiniteSets, TLC

\* ------------------------------------------------------------------------
\* Characters and strings
\* ------------------------------------------------------------------------

\* Python None for parsed schedules.
None == [none |-> TRUE]

\* match.group(n) of an optional group that took no part in the match
NoGroup == <<>>

\* Python None where a str is expected (a value no text is equal to).
NoneStr == <<"None">>

Digits == <<"0", "1", "2", "3", "4", "5", "6", "7", "8", "9">>

LowerCase == <<"a", "b", "c", "d", "e", "f", "g", "h", "i", "j", "k", "l", "m",
               "n", "o", "p", "q", "r", "s", "t", "u", "v", "w", "x", "y", "z">>

UpperCase == <<"A", "B", "C", "D", "E", "F", "G", "H", "I", "J", "K", "L", "M",
               "N", "O", "P", "Q", "R", "S", "T", "U", "V", "W", "X", "Y", "Z">>

\* \s of the regular expressions, for the characters of the model
Whitespace == {" "}

\* \d
IsDigit(c) == \E i \in 1..10 : Digits[i] = c

\* int() of one digit
DigitVal(c) == (CHOOSE i \in 1..10 : Digits[i] = c) - 1

\* [A-Za-z]
Letters == {LowerCase[i] : i \in 1..26} \cup {UpperCase[i] : i \in 1..26}

\* [MTWRFSUmtwrfsu]
DayLetters == {"M", "T", "W", "R", "F", "S", "U", "m", "t", "w", "r", "f", "s", "u"}

\* str.upper() on one character
UpperChar(c) ==
    IF \E i \in 1..26 : LowerCase[i] = c
    THEN UpperCase[CHOOSE i \in 1..26 : LowerCase[i] = c]
    ELSE c

\* str.upper()
Upper(s) == [i \in 1..Len(s) |-> UpperChar(s[i])]

\* the character at position i, "" past the end
At(s, i) == IF i >= 1 /\ i <= Len(s) THEN s[i] ELSE ""

\* first position >= i of s whose character is not in cls (greedy cls*)
RECURSIVE RunEnd(_, _, _)
RunEnd(s, i, cls) ==
    IF i <= Len(s) /\ s[i] \in cls THEN RunEnd(s, i + 1, cls) ELSE i

\* str.strip()
RECURSIVE Strip(_)
Strip(s) ==
    IF s = <<>> THEN s
    ELSE IF Head(s) \in Whitespace THEN Strip(Tail(s))
    ELSE IF s[Len(s)] \in Whitespace THEN Strip(SubSeq(s, 1, Len(s) - 1))
    ELSE s

\* str.startswith
StartsWith(s, p) == Len(p) <= Len(s) /\ SubSeq(s, 1, Len(p)) = p

\* days_str.replace("TH", "R")
RECURSIVE ReplaceTH(_)
ReplaceTH(s) ==
    IF Len(s) < 2 THEN s
    ELSE IF s[1] = "T" /\ s[2] = "H" THEN <<"R">> \o ReplaceTH(SubSeq(s, 3, Len(s)))
    ELSE <<s[1]>> \o ReplaceTH(Tail(s))

\* .replace("H", "")
RemoveH(s) == SelectSeq(s, LAMBDA c : c # "H")

\* ------------------------------------------------------------------------
\* parse_schedule
\* ------------------------------------------------------------------------

\* (\d{1,2}):(\d{2})\s*(AM|PM)? matched at position i, IGNORECASE
match_time(s, i) ==
    LET n == IF IsDigit(At(s, i)) THEN (IF IsDigit(At(s, i + 1)) THEN 2 ELSE 1) ELSE 0
        c == i + n
    IN  IF n = 0 \/ At(s, c) # ":" \/ ~IsDigit(At(s, c + 1)) \/ ~IsDigit(At(s, c + 2))
        THEN [ok |-> FALSE]
        ELSE LET j    == RunEnd(s, c + 3, Whitespace)
                 ap   == <<At(s, j), At(s, j + 1)>>
                 has  == Upper(ap) \in {<<"A", "M">>, <<"P", "M">>}
                 hour == IF n = 2 THEN 10 * DigitVal(s[i]) + DigitVal(s[i + 1])
                                  ELSE DigitVal(s[i])
             IN  [ok   |-> TRUE,
                  hour |-> hour,
                  min  |-> 10 * DigitVal(s[c + 1]) + DigitVal(s[c + 2]),
                  ampm |-> IF has THEN ap ELSE NoGroup,
                  next |-> IF has THEN j + 2 ELSE j]

\* re.match(r"(<cls>+h?)\s+<time>\s*-\s*<time>", s, re.IGNORECASE); the
\* optional h belongs to the day-letter pattern only
re_match(s, cls, optH) ==
    LET d == RunEnd(s, 1, cls)
        e == IF optH /\ UpperChar(At(s, d)) = "H" THEN d + 1 ELSE d
        w == RunEnd(s, e, Whitespace)
    IN  IF d = 1 \/ w = e THEN [ok |-> FALSE]
        ELSE LET t1 == match_time(s, w)
             IN  IF ~t1.ok THEN [ok |-> FALSE]
                 ELSE LET a == RunEnd(s, t1.next, Whitespace)
                      IN  IF At(s, a) # "-" THEN [ok |-> FALSE]
                          ELSE LET t2 == match_time(s, RunEnd(s, a + 1, Whitespace))
                               IN  IF ~t2.ok THEN [ok |-> FALSE]
                                   ELSE [ok |-> TRUE,
                                         group1 |-> SubSeq(s, 1, e - 1),
                                         start_hour |-> t1.hour, start_min |-> t1.min,
                                         start_ampm |-> t1.ampm,
                                         end_hour |-> t2.hour, end_min |-> t2.min,
                                         end_ampm |-> t2.ampm]

\* day_mapping, in the iteration order of the dict
day_mapping ==
    << <<<<"M","O","N","D","A","Y">>, "M">>, <<<<"M","O","N">>, "M">>,
       <<<<"T","U","E","S","D","A","Y">>, "T">>, <<<<"T","U","E">>, "T">>,
       <<<<"W","E","D","N","E","S","D","A","Y">>, "W">>, <<<<"W","E","D">>, "W">>,
       <<<<"T","H","U","R","S","D","A","Y">>, "R">>, <<<<"T","H","U">>, "R">>,
       <<<<"T","H">>, "R">>,
       <<<<"F","R","I","D","A","Y">>, "F">>, <<<<"F","R","I">>, "F">>,
       <<<<"S","A","T","U","R","D","A","Y">>, "S">>, <<<<"S","A","T">>, "S">>,
       <<<<"S","U","N","D","A","Y">>, "U">>, <<<<"S","U","N">>, "U">> >>

\* the loop over day_mapping.items(): the code of the first name that
\* days_input starts with, "" when there is none
day_code(days_input) ==
    LET hits == {k \in 1..Len(day_mapping) : StartsWith(days_input, day_mapping[k][1])}
    IN  IF hits = {} THEN <<>>
        ELSE <<day_mapping[CHOOSE k \in hits : \A l \in hits : k <= l][2]>>

\* start_ampm and start_ampm.upper() == "PM"
IsPM(ampm) == ampm # NoGroup /\ Upper(ampm) = <<"P", "M">>

\* the conversion with the low-hour rule applied to each boundary that has
\* no marker, whatever the other boundary has
to_24_hour_each(start_hour, start_ampm, end_hour, end_ampm) ==
    <<IF IsPM(start_ampm) /\ start_hour < 12 THEN start_hour + 12
      ELSE IF start_ampm = NoGroup /\ start_hour < 8 /\ start_hour >= 1 THEN start_hour + 12
      ELSE start_hour,
      IF IsPM(end_ampm) /\ end_hour < 12 THEN end_hour + 12
      ELSE IF end_ampm = NoGroup /\ end_hour < 8 /\ end_hour >= 1 THEN end_hour + 12
      ELSE end_hour>>

\* "Convert to 24-hour format based on AM/PM markers": the pair of hours
\* after the if / if / elif chain
to_24_hour(start_hour, start_ampm, end_hour, end_ampm) ==
    LET sh1 == IF IsPM(start_ampm) /\ start_hour < 12 THEN start_hour + 12 ELSE start_hour
    IN  IF IsPM(end_ampm) /\ end_hour < 12
        THEN <<sh1, end_hour + 12>>
        ELSE IF start_ampm = NoGroup /\ end_ampm = NoGroup
        THEN <<IF sh1 < 8 /\ sh1 >= 1 THEN sh1 + 12 ELSE sh1,
               IF end_hour < 8 /\ end_hour >= 1 THEN end_hour + 12 ELSE end_hour>>
        ELSE <<sh1, end_hour>>

parse_result(days_str, m) ==
    LET h == to_24_hour(m.start_hour, m.start_ampm, m.end_hour, m.end_ampm)
    IN  [days  |-> days_str,
         start |-> h[1] * 60 + m.start_min,
         end   |-> h[2] * 60 + m.end_min]

\* parse_schedule without "if not days_str: return None"
parse_schedule_any_word(schedule_str) ==
    IF schedule_str = NoneStr \/ schedule_str = <<>> \/ Upper(schedule_str) = <<"T", "B", "A">>
    THEN None
    ELSE LET s  == Strip(schedule_str)
             m1 == re_match(s, DayLetters, TRUE)
         IN  IF m1.ok
             THEN parse_result(RemoveH(ReplaceTH(Upper(m1.group1))), m1)
             ELSE LET m2 == re_match(s, Letters, FALSE)
                  IN  IF ~m2.ok THEN None
                      ELSE parse_result(day_code(Upper(m2.group1)), m2)

parse_schedule(schedule_str) ==
    IF schedule_str = NoneStr \/ schedule_str = <<>> \/ Upper(schedule_str) = <<"T", "B", "A">>
    THEN None
    ELSE LET s  == Strip(schedule_str)
             m1 == re_match(s, DayLetters, TRUE)
         IN  IF m1.ok
             THEN parse_result(RemoveH(ReplaceTH(Upper(m1.group1))), m1)
             ELSE LET m2 == re_match(s, Letters, FALSE)
                  IN  IF ~m2.ok THEN None
                      ELSE LET days_str == day_code(Upper(m2.group1))
                           IN  IF days_str = <<>> THEN None
                               ELSE parse_result(days_str, m2)

\* ------------------------------------------------------------------------
\* schedules_conflict, has_schedule_conflict
\* ------------------------------------------------------------------------

\* set(list)
ToSet(l) == {l[i] : i \in 1..Len(l)}

\* schedules_conflict with the second comparison turned around
schedules_conflict_turned(sched1, sched2) ==
    IF sched1 = None \/ sched2 = None THEN FALSE
    ELSE LET days1 == ToSet(sched1.days)
             days2 == ToSet(sched2.days)
         IN  IF days1 = {} \/ days2 = {} THEN FALSE
             ELSE IF days1 \cap days2 = {} THEN FALSE
             ELSE IF ~(\A t \in {sched1.start, sched1.end, sched2.start, sched2.end} :
                          0 <= t /\ t <= 1440) THEN FALSE
             ELSE sched1.start < sched2.end /\ sched2.start > sched1.end

\* schedules_conflict with <= in place of <: back-to-back classes conflict
schedules_conflict_closed(sched1, sched2) ==
    IF sched1 = None \/ sched2 = None THEN FALSE
    ELSE LET days1 == ToSet(sched1.days)
             days2 == ToSet(sched2.days)
         IN  IF days1 = {} \/ days2 = {} THEN FALSE
             ELSE IF days1 \cap days2 = {} THEN FALSE
             ELSE IF ~(\A t \in {sched1.start, sched1.end, sched2.start, sched2.end} :
                          0 <= t /\ t <= 1440) THEN FALSE
             ELSE sched1.start <= sched2.end /\ sched2.start <= sched1.end

\* schedules_conflict that validates the times of sched1 only
schedules_conflict_half_checked(sched1, sched2) ==
    IF sched1 = None \/ sched2 = None THEN FALSE
    ELSE LET days1 == ToSet(sched1.days)
             days2 == ToSet(sched2.days)
         IN  IF days1 = {} \/ days2 = {} THEN FALSE
             ELSE IF days1 \cap days2 = {} THEN FALSE
             ELSE IF ~(\A t \in {sched1.start, sched1.end} :
                          0 <= t /\ t <= 1440) THEN FALSE
             ELSE sched1.start < sched2.end /\ sched2.start < sched1.end

schedules_conflict_absent(sched1, sched2) ==
    IF sched1 = None \/ sched2 = None THEN sched1 # None \/ sched2 # None
    ELSE LET days1 == ToSet(sched1.days)
             days2 == ToSet(sched2.days)
         IN  IF days1 = {} \/ days2 = {} THEN FALSE
             ELSE IF days1 \cap days2 = {} THEN FALSE
             ELSE IF ~(\A t \in {sched1.start, sched1.end, sched2.start, sched2.end} :
                          0 <= t /\ t <= 1440) THEN FALSE
             ELSE sched1.start < sched2.end /\ sched2.start < sched1.end

schedules_conflict(sched1, sched2) ==
    IF sched1 = None \/ sched2 = None THEN FALSE
    ELSE LET days1 == ToSet(sched1.days)
             days2 == ToSet(sched2.days)
         IN  IF days1 = {} \/ days2 = {} THEN FALSE
             ELSE IF days1 \cap days2 = {} THEN FALSE
             ELSE IF ~(\A t \in {sched1.start, sched1.end, sched2.start, sched2.end} :
                          0 <= t /\ t <= 1440) THEN FALSE
             ELSE sched1.start < sched2.end /\ sched2.start < sched1.end

has_schedule_conflict(schedule) ==
    \E i \in 1..Len(schedule) : \E j \in (i + 1)..Len(schedule) :
        schedules_conflict(parse_schedule(schedule[i].schedule),
                           parse_schedule(schedule[j].schedule))

\* ------------------------------------------------------------------------
\* is_course_full, get_schedule_status
\* ------------------------------------------------------------------------

\* str.split(sep): the parts of s between the occurrences of sep
RECURSIVE split(_, _)
split(s, sep) ==
    LET hits == {i \in 1..Len(s) : s[i] = sep}
    IN  IF hits = {} THEN <<s>>
        ELSE LET i == CHOOSE i \in hits : \A j \in hits : i <= j
             IN  <<SubSeq(s, 1, i - 1)>> \o split(SubSeq(s, i + 1, Len(s)), sep)

\* the number a run of digits writes
RECURSIVE digits_value(_)
digits_value(s) ==
    IF s = <<>> THEN 0
    ELSE digits_value(SubSeq(s, 1, Len(s) - 1)) * 10 + DigitVal(s[Len(s)])

\* int(s) for a text of digits, signs, spaces and other characters: ok is
\* false where int raises ValueError
int_of(s) ==
    LET t      == Strip(s)
        signed == t # <<>> /\ Head(t) \in {"+", "-"}
        body   == IF signed THEN Tail(t) ELSE t
    IN  IF body = <<>> \/ \E i \in 1..Len(body) : ~IsDigit(body[i])
        THEN [ok |-> FALSE, value |-> 0]
        ELSE [ok |-> TRUE,
              value |-> IF signed /\ Head(t) = "-" THEN 0 - digits_value(body)
                        ELSE digits_value(body)]

\* course.get("enrolled", "0/0")
enrolled_str(course) ==
    IF "enrolled" \in DOMAIN course THEN course.enrolled ELSE <<"0", "/", "0">>

\* is_course_full with enrolled > capacity
is_course_full_over(course) ==
    IF \E i \in 1..Len(enrolled_str(course)) : enrolled_str(course)[i] = "/"
    THEN LET parts    == split(enrolled_str(course), "/")
             enrolled == int_of(Strip(parts[1]))
             capacity == int_of(Strip(parts[2]))
         IN  IF enrolled.ok /\ capacity.ok THEN enrolled.value > capacity.value
             ELSE FALSE
    ELSE FALSE

is_course_full(course) ==
    IF \E i \in 1..Len(enrolled_str(course)) : enrolled_str(course)[i] = "/"
    THEN LET parts    == split(enrolled_str(course), "/")
             enrolled == int_of(Strip(parts[1]))
             capacity == int_of(Strip(parts[2]))
         IN  IF enrolled.ok /\ capacity.ok THEN enrolled.value >= capacity.value
             ELSE FALSE
    ELSE FALSE

\* course.get("code", "Unknown")
code_of(course) == IF "code" \in DOMAIN course THEN course.code ELSE <<"Unknown", 0>>

\* get_schedule_status with "unavailable" kept for a schedule that is full
\* in every section
get_schedule_status_all(schedule) ==
    LET full_courses ==
            [i \in 1..Len(SelectSeq(schedule, is_course_full)) |->
                code_of(SelectSeq(schedule, is_course_full)[i])]
    IN  [status       |-> IF Len(full_courses) = Len(schedule) THEN "unavailable"
                          ELSE "available",
         full_courses |-> full_courses]

get_schedule_status(schedule) ==
    LET full_courses ==
            [i \in 1..Len(SelectSeq(schedule, is_course_full)) |->
                code_of(SelectSeq(schedule, is_course_full)[i])]
    IN  [status       |-> IF full_courses # <<>> THEN "unavailable" ELSE "available",
         full_courses |-> full_courses]

\* ------------------------------------------------------------------------
\* Inputs
\* ------------------------------------------------------------------------

MaxCourses == 3
MaxSections == 2
MaxTotalSections == 3
MaxPairSections == 2
MaxCap == 2
MaxDays == 2

\* the two invocations of generate_schedule_combinations of the model
Calls == {1, 2}

\* keys of courses_by_code, in insertion order
CourseCodes == <<"X", "Y", "Z", "V", "W">>

\* "HH:MM AM" as the catalogue writes a time
Time12(h, m, ampm) ==
    <<Digits[(h \div 10) + 1], Digits[(h % 10) + 1], ":",
      Digits[(m \div 10) + 1], Digits[(m % 10) + 1], " ">> \o ampm

\* "<days> <start> - <end>"
ScheduleText(days, start, end) == days \o <<" ">> \o start \o <<" ", "-", " ">> \o end

AM == <<"A", "M">>
PM == <<"P", "M">>

\* the schedule texts sections are built from: the texts of scenario B of
\* the specification and "TBA", in the format of the catalogue
SchedulePool ==
    { ScheduleText(<<"M">>, Time12(9, 0, AM), Time12(10, 0, AM)),
      ScheduleText(<<"M">>, Time12(10, 0, AM), Time12(11, 0, AM)),
      ScheduleText(<<"M">>, Time12(10, 0, AM), Time12(10, 30, AM)),
      <<"T", "B", "A">> }

\* a section record: {"code": "<course> - Group <g>", "schedule": text}
Section(course, g, text) == [code |-> <<course, g>>, schedule |-> text]

\* build_courses_dict: texts[i] lists the schedule texts of the i-th course
build_courses_dict(texts) ==
    [i \in 1..Len(texts) |->
        [code     |-> CourseCodes[i],
         sections |-> [g \in 1..Len(texts[i]) |-> Section(CourseCodes[i], g, texts[i][g])]]]

\* the sum of the first n entries of a sequence of numbers
RECURSIVE SumTo(_, _)
SumTo(ns, n) == IF n = 0 THEN 0 ELSE ns[n] + SumTo(ns, n - 1)

\* the numbers of sections per course, within the bounds and with at most
\* total sections in all
Shapes(total) ==
    {sh \in UNION {[1..nc -> 0..MaxSections] : nc \in 0..MaxCourses} :
        SumTo(sh, Len(sh)) <= total}

\* the schedule texts of the sections of the courses of a shape, flat being
\* the texts of all sections one course after the other
TextsOf(shape, flat) ==
    [i \in 1..Len(shape) |-> [g \in 1..shape[i] |-> flat[SumTo(shape, i - 1) + g]]]

\* the schedule texts of the inputs two invocations are run on side by side
PairPool ==
    { ScheduleText(<<"M">>, Time12(9, 0, AM), Time12(10, 0, AM)),
      ScheduleText(<<"M">>, Time12(10, 0, AM), Time12(11, 0, AM)) }

\* texts without a schedule: empty, "TBA" and a text of neither form
UnscheduledTexts == { <<>>, <<"T", "B", "A">>, <<"N", "/", "A">> }

\* the schedule texts of the inputs with sections that have no schedule
UnscheduledPool ==
    UnscheduledTexts \cup {ScheduleText(<<"M">>, Time12(9, 0, AM), Time12(10, 0, AM))}

\* the day tokens schedule texts are written with, each with the day codes
\* it stands for: runs of day codes, the "TTh" style, lower case, day names,
\* and words that are no day name
DayTokens ==
    { [kind |-> "letters", text |-> <<"M">>, days |-> <<"M">>],
      [kind |-> "letters", text |-> <<"S", "U">>, days |-> <<"S", "U">>],
      [kind |-> "letters", text |-> <<"M", "W", "F">>, days |-> <<"M", "W", "F">>],
      [kind |-> "letters", text |-> <<"T", "R">>, days |-> <<"T", "R">>],
      [kind |-> "style", text |-> <<"T", "T", "h">>, days |-> <<"T", "R">>],
      [kind |-> "style", text |-> <<"m", "w">>, days |-> <<"M", "W">>],
      [kind |-> "name", text |-> <<"S", "a", "t">>, days |-> <<"S">>],
      [kind |-> "name", text |-> <<"T", "h", "u", "r", "s", "d", "a", "y">>, days |-> <<"R">>],
      [kind |-> "name", text |-> <<"S", "u", "n">>, days |-> <<"U">>],
      [kind |-> "word", text |-> <<"H", "o", "l", "i", "d", "a", "y">>, days |-> <<>>] }

\* the hours and minutes times are written with: the 12-hour clock around
\* the thresholds of the conversion, and numbers no clock shows
HourValues == {0, 1, 7, 8, 11, 12, 13, 24, 99}
MinuteValues == {0, 59, 99}

\* the markers a time is written with, NoGroup for none
Markers == {NoGroup, AM, PM}

\* "H:MM", "HH:MM", "H:MM AM", "HH:MM AM": a time with a one- or two-digit
\* hour (two digits when padded or above 9) and an optional marker
TimeText(h, m, ampm, padded) ==
    (IF h >= 10 \/ padded THEN <<Digits[(h \div 10) + 1]>> ELSE <<>>)
    \o <<Digits[(h % 10) + 1], ":", Digits[(m \div 10) + 1], Digits[(m % 10) + 1]>>
    \o (IF ampm = NoGroup THEN <<>> ELSE <<" ">> \o ampm)

\* the schedule text written from the parts b
WrittenText(b) ==
    ScheduleText(b.token, TimeText(b.start_hour, b.start_min, b.start_ampm, b.padded),
                          TimeText(b.end_hour, b.end_min, b.end_ampm, b.padded))

\* texts of no schedule form: no text, the empty text, "TBA" in any case,
\* and texts neither regular expression matches
OtherTexts ==
    { [kind |-> "absent", text |-> NoneStr],
      [kind |-> "empty", text |-> <<>>],
      [kind |-> "tba", text |-> <<"T", "B", "A">>],
      [kind |-> "tba", text |-> <<"t", "b", "a">>],
      [kind |-> "tba", text |-> <<"T", "b", "a">>],
      [kind |-> "neither", text |-> <<" ", "T", "B", "A">>],
      [kind |-> "neither", text |-> <<" ">>],
      [kind |-> "neither", text |-> <<"N", "/", "A">>],
      [kind |-> "neither", text |-> <<"M", " ", "9", "-", "1", "0">>],
      [kind |-> "neither", text |-> <<"9", ":", "0", "0", " ", "-", " ", "1", "0", ":", "0", "0">>],
      [kind |-> "neither", text |-> <<"M", "W", "F">>] }

\* the longest combination get_schedule_status is called on directly
MaxScheduleLen == 2

\* a number below 100 as the catalogue writes it
Decimal(n) ==
    IF n >= 10 THEN <<Digits[(n \div 10) + 1], Digits[(n % 10) + 1]>> ELSE <<Digits[n + 1]>>

\* "N/M", enrolled over capacity
EnrolledText(n, m) == Decimal(n) \o <<"/">> \o Decimal(m)

\* pairs of enrolled and capacity: below, at and above the capacity
SeatCounts == {<<12, 30>>, <<30, 30>>, <<31, 30>>, <<0, 0>>}

\* enrolled texts without a slash
NoSlashEnrolled == { <<>>, <<"3", "0">> }

\* enrolled texts with a slash and a part that is no integer
NonIntegerEnrolled ==
    { <<"N", "/", "A">>, <<"1", "2", "/">>, <<"x", "/", "3", "0">>, <<"3", "0", "/", "x">> }

\* the values of the enrolled field, NoneStr for a section without the field
EnrolledPool ==
    {EnrolledText(c[1], c[2]) : c \in SeatCounts}
        \cup NoSlashEnrolled \cup NonIntegerEnrolled \cup {NoneStr}

\* a section record with the enrolled field, or without it
SectionEnrolled(course, g, text, enrolled) ==
    IF enrolled = NoneStr THEN Section(course, g, text)
    ELSE [code |-> <<course, g>>, schedule |-> text, enrolled |-> enrolled]

\* the most sections in all of an input whose sections have the enrolled field
MaxStatusSections == 2

\* the enrolled texts of the sections of such an input
StatusEnrolled == {EnrolledText(12, 30), EnrolledText(30, 30), EnrolledText(31, 30)}

\* the course mapping d with enrolled[i][g] as the enrolled field of section
\* g of course i
with_enrolled(d, enrolled) ==
    [i \in 1..Len(d) |->
        [code     |-> d[i].code,
         sections |-> [g \in 1..Len(d[i].sections) |->
                          SectionEnrolled(d[i].code, g, d[i].sections[g].schedule,
                                          enrolled[i][g])]]]

\* the most section records a host loads
MaxLoaded == 3

\* max_combinations=100 of schedule_generator
CliCap == 100

\* the status texts of loaded section records
StatusPool ==
    { <<"D", "I", "S", "S", "O", "L", "V", "E", "D">>,
      <<"D", "i", "s", "s", "o", "l", "v", "e", "d">>,
      <<"B", "L", "O", "C", "K", "S", "E", "C", "T", "I", "O", "N">> }

\* the courses of loaded section records, each with the schedule text of
\* its sections
LoadedCourses ==
    { <<"X", ScheduleText(<<"M">>, Time12(9, 0, AM), Time12(10, 0, AM))>>,
      <<"Y", ScheduleText(<<"M">>, Time12(10, 0, AM), Time12(11, 0, AM))>> }

\* the course codes a host is asked for, in the order asked
RequestedCodes == { <<"X">>, <<"Y">>, <<"X", "Y">>, <<"Y", "X">> }

\* course.get("status", "")
status_of(course) == IF "status" \in DOMAIN course THEN course.status ELSE <<>>

\* the loop over the loaded records with the status compared as written
filter_dissolved_exact(data) ==
    SelectSeq(data, LAMBDA course :
        status_of(course) # <<"D", "I", "S", "S", "O", "L", "V", "E", "D">>)

\* the loop over the loaded records: "if status == "DISSOLVED": continue"
filter_dissolved(data) ==
    SelectSeq(data, LAMBDA course :
        Upper(status_of(course)) # <<"D", "I", "S", "S", "O", "L", "V", "E", "D">>)

\* course.get("code", "").split(" - Group")[0]
course_of(course) == course.code[1]

\* the codes of the records, each once, in the order of first appearance
RECURSIVE first_codes(_)
first_codes(data) ==
    IF data = <<>> THEN <<>>
    ELSE LET rest == first_codes(SubSeq(data, 1, Len(data) - 1))
             code == course_of(data[Len(data)])
         IN  IF \E i \in 1..Len(rest) : rest[i] = code THEN rest ELSE Append(rest, code)

\* courses_by_code of the hosts: the records that are not dissolved, grouped
\* by course code
group_by_code(data) ==
    LET kept == filter_dissolved(data)
    IN  [i \in 1..Len(first_codes(kept)) |->
            [code     |-> first_codes(kept)[i],
             sections |-> SelectSeq(kept, LAMBDA course :
                              course_of(course) = first_codes(kept)[i])]]

\* selected_dict: the groups of the codes asked for, in the order asked
selected_dict(groups, codes) ==
    [i \in 1..Len(codes) |->
        groups[CHOOSE j \in 1..Len(groups) : groups[j].code = codes[i]]]

\* parsed schedules handed to schedules_conflict directly
ConflictDays == {"M", "T"}
TimeValues == {0 - 1, 0, 600, 1440, 1441}
Intervals ==
    [days  : UNION {[1..n -> ConflictDays] : n \in 0..MaxDays},
     start : TimeValues,
     end   : TimeValues]

\* dict access
Keys(d) == [i \in 1..Len(d) |-> d[i].code]
Get(d, k) == d[CHOOSE i \in 1..Len(d) : d[i].code = k].sections

\* ------------------------------------------------------------------------
\* generate_schedule_combinations as a state machine
\* ------------------------------------------------------------------------

VARIABLES
    calls,                  \* the invocations that take place
    courses_by_code,        \* argument of each invocation
    max_combinations,       \* argument of each invocation
    pc,                     \* "idle", "running" or "done"
    course_codes,           \* list(courses_by_code.keys())
    valid_schedules,
    rejected_by_conflict,
    current_schedule,       \* the one list object all frames of backtrack share
    frames,                 \* the call stack of backtrack, innermost frame last
    result,                 \* the value returned
    interval_a, interval_b, \* the two parsed schedules schedules_conflict is called on
    tested,                 \* the argument orders schedules_conflict was called with
    conflict,               \* what schedules_conflict returned, per argument order
    schedule_str,           \* the text parse_schedule is called on
    built,                  \* the parts schedule_str was written from
    parse_done,             \* whether parse_schedule has returned
    parsed,                 \* the value parse_schedule returned
    schedule,               \* the combination get_schedule_status is called on
    applied,                \* which of is_course_full, get_schedule_status returned
    full,                   \* what is_course_full returned, per section of schedule
    status_info,            \* the value get_schedule_status returned
    annotated,              \* the status_info of each returned combination, in order
    examined,               \* the (path, candidate section) pairs the section loop took
                            \* up, each as the positions of its sections in their lists
    courses_data,           \* the loaded section records a host groups by course
    selection,              \* the host and the course codes it was asked for
    scraping_tasks,         \* the dict of ScrapeStatus records, by task id
    worker,                 \* the locals and the position of scrape_task_worker, by task id
    polled,                 \* the answer of the latest call of get_scrape_status
    files,                  \* the paths of the files that exist
    opened,                 \* the files the endpoints opened, each with the name asked for
    served                  \* the status code of the latest answer of a file endpoint

genVars == <<calls, courses_by_code, max_combinations, pc, course_codes, valid_schedules,
             rejected_by_conflict, current_schedule, frames, result, examined>>

scrapeVars == <<scraping_tasks, worker, polled>>

hostVars == <<courses_data, selection, scrapeVars, files, opened, served>>

conflictVars == <<interval_a, interval_b, tested, conflict>>

parseVars == <<schedule_str, built, parse_done, parsed>>

statusVars == <<schedule, applied, full, status_info>>

vars == <<genVars, conflictVars, parseVars, statusVars, annotated, hostVars>>

\* the ids of the scrape tasks, uuid4 strings in the program
Tasks == {1, 2}

\* an Optional attribute that is None, and one that holds a value
Absent == <<>>

Present(value) == <<value>>

\* the locals of scrape_task_worker before the task is added
NotStarted ==
    [at |-> "none", scrape_type |-> "none", request_data |-> [courses |-> <<>>],
     courses_data |-> <<>>, idx |-> 0, filename |-> <<>>, e |-> ""]

\* no scrape task was ever started
ScrapeIdle ==
    /\ scraping_tasks = <<>>
    /\ worker = [t \in Tasks |-> NotStarted]
    /\ polled = Absent

\* no file exists and no endpoint was asked for one
FilesIdle ==
    /\ files = {}
    /\ opened = {}
    /\ served = Absent

\* no host loads section records
HostIdle ==
    /\ courses_data = [p \in Calls |-> <<>>]
    /\ selection = [p \in Calls |-> [host |-> "none", codes |-> <<>>]]
    /\ ScrapeIdle
    /\ FilesIdle

\* parse_schedule is not called
ParseIdle ==
    /\ schedule_str = NoneStr
    /\ built = [kind |-> "absent"]
    /\ parse_done = FALSE
    /\ parsed = None

\* is_course_full and get_schedule_status are not called on their own
StatusIdle ==
    /\ schedule = <<>>
    /\ applied = {}
    /\ full = <<>>
    /\ status_info = None

\* no invocation of the generator
GeneratorIdle ==
    /\ calls = {}
    /\ courses_by_code = [p \in Calls |-> <<>>]
    /\ max_combinations = [p \in Calls |-> 1]
    /\ pc = [p \in Calls |-> "idle"]
    /\ course_codes = [p \in Calls |-> <<>>]
    /\ valid_schedules = [p \in Calls |-> <<>>]
    /\ rejected_by_conflict = [p \in Calls |-> <<>>]
    /\ current_schedule = [p \in Calls |-> <<>>]
    /\ frames = [p \in Calls |-> <<>>]
    /\ result = [p \in Calls |-> None]
    /\ annotated = [p \in Calls |-> <<>>]
    /\ examined = [p \in Calls |-> <<>>]
    /\ HostIdle

\* schedules_conflict is not called
ConflictIdle ==
    /\ interval_a = None
    /\ interval_b = None
    /\ tested = {}
    /\ conflict = [o \in {"12", "21"} |-> FALSE]

InitCalls(active, groups, caps) ==
    /\ calls = active
    /\ courses_by_code = groups
    /\ max_combinations = caps
    /\ pc = [p \in Calls |-> "idle"]
    /\ course_codes = [p \in Calls |-> <<>>]
    /\ valid_schedules = [p \in Calls |-> <<>>]
    /\ rejected_by_conflict = [p \in Calls |-> <<>>]
    /\ current_schedule = [p \in Calls |-> <<>>]
    /\ frames = [p \in Calls |-> <<>>]
    /\ result = [p \in Calls |-> None]
    /\ annotated = [p \in Calls |-> <<>>]
    /\ examined = [p \in Calls |-> <<>>]
    /\ HostIdle
    /\ ConflictIdle
    /\ ParseIdle
    /\ StatusIdle

\* the invocations of active, each on the same course mapping (any number of
\* courses and sections within the bounds, any texts of pool) and the same cap
InitOn(active, pool, total) ==
    \E shape \in Shapes(total) : \E flat \in [1..SumTo(shape, Len(shape)) -> pool] :
        \E k \in 1..MaxCap :
            InitCalls(active,
                      [p \in Calls |-> build_courses_dict(TextsOf(shape, flat))],
                      [p \in Calls |-> k])

\* one invocation on any input and any cap
Init == InitOn({1}, SchedulePool, MaxTotalSections)

\* two invocations with the same course mapping and the same cap
InitPair == InitOn(Calls, PairPool, MaxPairSections)

\* two invocations with the same course mapping, each with a cap of its own
InitPrefix ==
    \E shape \in Shapes(MaxTotalSections) :
        \E flat \in [1..SumTo(shape, Len(shape)) -> PairPool] :
            \E k1 \in 1..MaxCap : \E k2 \in 1..MaxCap :
                InitCalls(Calls,
                          [p \in Calls |-> build_courses_dict(TextsOf(shape, flat))],
                          [p \in Calls |-> IF p = 1 THEN k1 ELSE k2])

\* no invocation of the generator; schedules_conflict is called on any two
\* parsed schedules, each a dict or None
InitConflict ==
    /\ GeneratorIdle
    /\ interval_a \in Intervals \cup {None}
    /\ interval_b \in Intervals \cup {None}
    /\ tested = {}
    /\ conflict = [o \in {"12", "21"} |-> FALSE]
    /\ ParseIdle
    /\ StatusIdle

\* one invocation on an input with unscheduled sections, or schedules_conflict
\* called on its own
InitUnscheduled == InitOn({1}, UnscheduledPool, MaxTotalSections) \/ InitConflict

\* parse_schedule is called on a text of no schedule form or on a text
\* written from a day token and two times
InitParse ==
    /\ GeneratorIdle
    /\ ConflictIdle
    /\ StatusIdle
    /\ \/ \E t \in OtherTexts :
            /\ built = [kind |-> t.kind]
            /\ schedule_str = t.text
       \/ \E d \in DayTokens : \E sh \in HourValues, eh \in HourValues :
            \E sm \in MinuteValues, em \in MinuteValues :
                \E sa \in Markers, ea \in Markers : \E pad \in BOOLEAN :
                    /\ pad => sh < 10 \/ eh < 10
                    /\ built = [kind |-> d.kind, token |-> d.text, days |-> d.days,
                                start_hour |-> sh, start_min |-> sm, start_ampm |-> sa,
                                end_hour |-> eh, end_min |-> em, end_ampm |-> ea,
                                padded |-> pad]
                    /\ schedule_str = WrittenText(built)
    /\ parse_done = FALSE
    /\ parsed = None

\* is_course_full and get_schedule_status are called on any combination of
\* up to MaxScheduleLen sections, each with any value of the enrolled field
InitFull ==
    /\ GeneratorIdle
    /\ ConflictIdle
    /\ ParseIdle
    /\ \E n \in 0..MaxScheduleLen : \E e \in [1..n -> EnrolledPool] :
           schedule = [i \in 1..n |->
                          SectionEnrolled(CourseCodes[i], 1, <<"T", "B", "A">>, e[i])]
    /\ applied = {}
    /\ full = <<>>
    /\ status_info = None

\* one invocation, as the endpoint generate_schedules makes it, on an input
\* whose sections have the enrolled field
InitStatus ==
    \E shape \in Shapes(MaxStatusSections) :
        \E flat \in [1..SumTo(shape, Len(shape)) -> PairPool] :
            \E seats \in [1..SumTo(shape, Len(shape)) -> StatusEnrolled] :
                \E k \in 1..MaxCap :
                    InitCalls({1},
                              [p \in Calls |->
                                  with_enrolled(build_courses_dict(TextsOf(shape, flat)),
                                                TextsOf(shape, seats))],
                              [p \in Calls |-> k])

\* two invocations side by side, on the same input or on different inputs,
\* or one invocation alone
InitIsolation ==
    \/ InitPair
    \/ InitOn({1}, PairPool, MaxPairSections)
    \/ \E shape \in Shapes(MaxPairSections) :
           \E flat \in [1..SumTo(shape, Len(shape)) -> PairPool] : \E k \in 1..MaxCap :
               InitCalls(Calls,
                         [p \in Calls |->
                             IF p = 1 THEN build_courses_dict(TextsOf(shape, flat))
                             ELSE build_courses_dict(
                                    << << ScheduleText(<<"M">>, Time12(9, 0, AM), Time12(10, 0, AM)),
                                          ScheduleText(<<"M">>, Time12(10, 0, AM), Time12(11, 0, AM)) >>,
                                       << ScheduleText(<<"M">>, Time12(10, 0, AM), Time12(10, 30, AM)) >> >>)],
                         [p \in Calls |-> k])

\* a host, the endpoint generate_schedules or the command schedule_generator,
\* has loaded any section records and is asked for any course codes
InitHost ==
    /\ calls = {1}
    /\ courses_by_code = [p \in Calls |-> <<>>]
    /\ \E k \in 1..MaxCap : max_combinations = [p \in Calls |-> k]
    /\ pc = [p \in Calls |-> IF p = 1 THEN "request" ELSE "idle"]
    /\ course_codes = [p \in Calls |-> <<>>]
    /\ valid_schedules = [p \in Calls |-> <<>>]
    /\ rejected_by_conflict = [p \in Calls |-> <<>>]
    /\ current_schedule = [p \in Calls |-> <<>>]
    /\ frames = [p \in Calls |-> <<>>]
    /\ result = [p \in Calls |-> None]
    /\ annotated = [p \in Calls |-> <<>>]
    /\ examined = [p \in Calls |-> <<>>]
    /\ \E n \in 0..MaxLoaded : \E cs \in [1..n -> LoadedCourses] :
           \E ss \in [1..n -> StatusPool] :
               courses_data = [p \in Calls |->
                   IF p = 1
                   THEN [g \in 1..n |-> [code     |-> <<cs[g][1], g>>,
                                         schedule |-> cs[g][2],
                                         status   |-> ss[g]]]
                   ELSE <<>>]
    /\ \E h \in {"api", "cli"} : \E codes \in RequestedCodes :
           selection = [p \in Calls |->
               IF p = 1 THEN [host |-> h, codes |-> codes]
               ELSE [host |-> "none", codes |-> <<>>]]
    /\ ConflictIdle
    /\ ParseIdle
    /\ StatusIdle
    /\ ScrapeIdle
    /\ FilesIdle

Top(p) == frames[p][Len(frames[p])]

SetTop(p, f) == [frames EXCEPT ![p][Len(frames[p])] = f]

PopFrame(p) == [frames EXCEPT ![p] = SubSeq(@, 1, Len(@) - 1)]

\* lines 348-350 and the call backtrack(0, []) of line 397
Call(p) ==
    /\ p \in calls
    /\ pc[p] = "idle"
    /\ pc' = [pc EXCEPT ![p] = "running"]
    /\ course_codes' = [course_codes EXCEPT ![p] = Keys(courses_by_code[p])]
    /\ valid_schedules' = [valid_schedules EXCEPT ![p] = <<>>]
    /\ rejected_by_conflict' = [rejected_by_conflict EXCEPT ![p] =
            [i \in 1..Len(courses_by_code[p]) |-> <<>>]]
    /\ current_schedule' = [current_schedule EXCEPT ![p] = <<>>]
    /\ frames' = [frames EXCEPT ![p] = <<[index |-> 0, i |-> 0, at |-> "entry"]>>]
    /\ UNCHANGED <<calls, courses_by_code, max_combinations, result>>
    /\ UNCHANGED <<conflictVars, parseVars, statusVars, annotated, examined, hostVars>>

\* the cap test with > in place of >=
cap_exceeded(p) == Len(valid_schedules[p]) > max_combinations[p]

\* len(valid_schedules) >= max_combinations
cap_reached(p) == Len(valid_schedules[p]) >= max_combinations[p]

\* if len(valid_schedules) >= max_combinations: return
CapReturn(p) ==
    /\ pc[p] = "running" /\ frames[p] # <<>> /\ Top(p).at = "entry"
    /\ cap_reached(p)
    /\ frames' = PopFrame(p)
    /\ UNCHANGED <<calls, courses_by_code, max_combinations, pc, course_codes,
                   valid_schedules, rejected_by_conflict, current_schedule, result>>
    /\ UNCHANGED <<conflictVars, parseVars, statusVars, annotated, examined, hostVars>>

\* the base case with valid_schedules one list shared by all invocations
CompleteShared(p) ==
    /\ pc[p] = "running" /\ frames[p] # <<>> /\ Top(p).at = "entry"
    /\ ~cap_reached(p)
    /\ Top(p).index = Len(course_codes[p])
    /\ valid_schedules' = [q \in Calls |->
            IF ~has_schedule_conflict(current_schedule[p])
            THEN Append(valid_schedules[q], current_schedule[p])
            ELSE valid_schedules[q]]
    /\ frames' = PopFrame(p)
    /\ UNCHANGED <<calls, courses_by_code, max_combinations, pc, course_codes,
                   rejected_by_conflict, current_schedule, result>>
    /\ UNCHANGED <<conflictVars, parseVars, statusVars, annotated, examined, hostVars>>

\* the base case with the combination put in front of the stored ones
CompleteFront(p) ==
    /\ pc[p] = "running" /\ frames[p] # <<>> /\ Top(p).at = "entry"
    /\ ~cap_reached(p)
    /\ Top(p).index = Len(course_codes[p])
    /\ valid_schedules' = [valid_schedules EXCEPT ![p] =
            IF ~has_schedule_conflict(current_schedule[p])
            THEN <<current_schedule[p]>> \o @ ELSE @]
    /\ frames' = PopFrame(p)
    /\ UNCHANGED <<calls, courses_by_code, max_combinations, pc, course_codes,
                   rejected_by_conflict, current_schedule, result>>
    /\ UNCHANGED <<conflictVars, parseVars, statusVars, annotated, examined, hostVars>>

\* base case: if index == len(course_codes): ... return
Complete(p) ==
    /\ pc[p] = "running" /\ frames[p] # <<>> /\ Top(p).at = "entry"
    /\ ~cap_reached(p)
    /\ Top(p).index = Len(course_codes[p])
    /\ valid_schedules' = [valid_schedules EXCEPT ![p] =
            IF ~has_schedule_conflict(current_schedule[p])
            THEN Append(@, current_schedule[p]) ELSE @]
    /\ frames' = PopFrame(p)
    /\ UNCHANGED <<calls, courses_by_code, max_combinations, pc, course_codes,
                   rejected_by_conflict, current_schedule, result>>
    /\ UNCHANGED <<conflictVars, parseVars, statusVars, annotated, examined, hostVars>>

\* the for loop that moves on to the next course when a course has no section
EnterLoopSkipEmpty(p) ==
    /\ pc[p] = "running" /\ frames[p] # <<>> /\ Top(p).at = "entry"
    /\ ~cap_reached(p)
    /\ Top(p).index # Len(course_codes[p])
    /\ frames' = SetTop(p,
            IF Get(courses_by_code[p], course_codes[p][Top(p).index + 1]) = <<>>
            THEN [Top(p) EXCEPT !.index = @ + 1]
            ELSE [Top(p) EXCEPT !.at = "loop", !.i = 1])
    /\ UNCHANGED <<calls, courses_by_code, max_combinations, pc, course_codes,
                   valid_schedules, rejected_by_conflict, current_schedule, result>>
    /\ UNCHANGED <<conflictVars, parseVars, statusVars, annotated, examined, hostVars>>

\* sections = courses_by_code[course_code]; the for loop starts
EnterLoop(p) ==
    /\ pc[p] = "running" /\ frames[p] # <<>> /\ Top(p).at = "entry"
    /\ ~cap_reached(p)
    /\ Top(p).index # Len(course_codes[p])
    /\ frames' = SetTop(p, [Top(p) EXCEPT !.at = "loop", !.i = 1])
    /\ UNCHANGED <<calls, courses_by_code, max_combinations, pc, course_codes,
                   valid_schedules, rejected_by_conflict, current_schedule, result>>
    /\ UNCHANGED <<conflictVars, parseVars, statusVars, annotated, examined, hostVars>>

\* the sections of the course the top frame works on
Sections(p) == Get(courses_by_code[p], course_codes[p][Top(p).index + 1])

\* the inner for loop taking a section without a parsed schedule for a conflict
ConflictsUnparsed(p, section) ==
    {j \in 1..Len(current_schedule[p]) :
        \/ parse_schedule(section.schedule) = None
        \/ schedules_conflict(parse_schedule(section.schedule),
                              parse_schedule(current_schedule[p][j].schedule))}

\* the inner for loop: the positions of current_schedule that conflict with section
Conflicts(p, section) ==
    {j \in 1..Len(current_schedule[p]) :
        schedules_conflict(parse_schedule(section.schedule),
                           parse_schedule(current_schedule[p][j].schedule))}

\* one iteration of "for section in sections" up to the recursive call, or
\* the whole iteration when the section is rejected
Iterate(p) ==
    /\ pc[p] = "running" /\ frames[p] # <<>> /\ Top(p).at = "loop"
    /\ Top(p).i <= Len(Sections(p))
    /\ LET section == Sections(p)[Top(p).i]
           hits    == Conflicts(p, section)
       IN  IF hits = {}
           THEN /\ current_schedule' = [current_schedule EXCEPT ![p] = Append(@, section)]
                /\ frames' = [frames EXCEPT ![p] =
                        Append(SubSeq(@, 1, Len(@) - 1), [Top(p) EXCEPT !.at = "call"])
                        \o <<[index |-> Top(p).index + 1, i |-> 0, at |-> "entry"]>>]
                /\ UNCHANGED rejected_by_conflict
           ELSE /\ rejected_by_conflict' = [rejected_by_conflict EXCEPT
                        ![p][Top(p).index + 1] = Append(@,
                            [section |-> section.code,
                             schedule |-> section.schedule,
                             conflicted_with |->
                                current_schedule[p][CHOOSE j \in hits :
                                                      \A l \in hits : j <= l].code])]
                /\ frames' = SetTop(p, [Top(p) EXCEPT !.i = @ + 1])
                /\ UNCHANGED current_schedule
    /\ UNCHANGED <<calls, courses_by_code, max_combinations, pc, course_codes,
                   valid_schedules, result>>
    /\ examined' = [examined EXCEPT ![p] =
            Append(@, [f \in 1..Len(frames[p]) |-> frames[p][f].i])]
    /\ UNCHANGED <<conflictVars, parseVars, statusVars, annotated, hostVars>>

\* the return from the recursive call without current_schedule.pop()
UndoNoPop(p) ==
    /\ pc[p] = "running" /\ frames[p] # <<>> /\ Top(p).at = "call"
    /\ frames' = SetTop(p, [Top(p) EXCEPT !.at = "loop", !.i = @ + 1])
    /\ UNCHANGED <<calls, courses_by_code, max_combinations, pc, course_codes,
                   valid_schedules, rejected_by_conflict, current_schedule, result>>
    /\ UNCHANGED <<conflictVars, parseVars, statusVars, annotated, examined, hostVars>>

\* the return from the recursive call with the section just tried removed
\* from the list of its course instead of the loop stepping past it
UndoConsuming(p) ==
    /\ pc[p] = "running" /\ frames[p] # <<>> /\ Top(p).at = "call"
    /\ current_schedule' = [current_schedule EXCEPT ![p] = SubSeq(@, 1, Len(@) - 1)]
    /\ frames' = SetTop(p, [Top(p) EXCEPT !.at = "loop"])
    /\ courses_by_code' = [courses_by_code EXCEPT ![p][Top(p).index + 1].sections =
            SubSeq(@, 1, Top(p).i - 1) \o SubSeq(@, Top(p).i + 1, Len(@))]
    /\ UNCHANGED <<calls, max_combinations, pc, course_codes,
                   valid_schedules, rejected_by_conflict, result>>
    /\ UNCHANGED <<conflictVars, parseVars, statusVars, annotated, examined, hostVars>>

\* the return from the recursive call with the pop applied to one path list
\* that all invocations share
UndoShared(p) ==
    /\ pc[p] = "running" /\ frames[p] # <<>> /\ Top(p).at = "call"
    /\ current_schedule' = [q \in Calls |->
            SubSeq(current_schedule[q], 1, Len(current_schedule[q]) - 1)]
    /\ frames' = SetTop(p, [Top(p) EXCEPT !.at = "loop", !.i = @ + 1])
    /\ UNCHANGED <<calls, courses_by_code, max_combinations, pc, course_codes,
                   valid_schedules, rejected_by_conflict, result>>
    /\ UNCHANGED <<conflictVars, parseVars, statusVars, annotated, examined, hostVars>>

\* the return from the recursive call with the loop taking up the same
\* section once more
UndoRepeat(p) ==
    /\ pc[p] = "running" /\ frames[p] # <<>> /\ Top(p).at = "call"
    /\ current_schedule' = [current_schedule EXCEPT ![p] = SubSeq(@, 1, Len(@) - 1)]
    /\ frames' = SetTop(p, [Top(p) EXCEPT !.at = "loop"])
    /\ UNCHANGED <<calls, courses_by_code, max_combinations, pc, course_codes,
                   valid_schedules, rejected_by_conflict, result>>
    /\ UNCHANGED <<conflictVars, parseVars, statusVars, annotated, examined, hostVars>>

\* current_schedule.pop() after backtrack(index + 1, current_schedule) returned
Undo(p) ==
    /\ pc[p] = "running" /\ frames[p] # <<>> /\ Top(p).at = "call"
    /\ current_schedule' = [current_schedule EXCEPT ![p] = SubSeq(@, 1, Len(@) - 1)]
    /\ frames' = SetTop(p, [Top(p) EXCEPT !.at = "loop", !.i = @ + 1])
    /\ UNCHANGED <<calls, courses_by_code, max_combinations, pc, course_codes,
                   valid_schedules, rejected_by_conflict, result>>
    /\ UNCHANGED <<conflictVars, parseVars, statusVars, annotated, examined, hostVars>>

\* the return of backtrack at the end of the for loop with one more pop of
\* the path
LoopReturnPop(p) ==
    /\ pc[p] = "running" /\ frames[p] # <<>> /\ Top(p).at = "loop"
    /\ Top(p).i > Len(Sections(p))
    /\ frames' = PopFrame(p)
    /\ current_schedule' = [current_schedule EXCEPT ![p] = SubSeq(@, 1, Len(@) - 1)]
    /\ UNCHANGED <<calls, courses_by_code, max_combinations, pc, course_codes,
                   valid_schedules, rejected_by_conflict, result>>
    /\ UNCHANGED <<conflictVars, parseVars, statusVars, annotated, examined, hostVars>>

\* the for loop is exhausted: backtrack returns
LoopReturn(p) ==
    /\ pc[p] = "running" /\ frames[p] # <<>> /\ Top(p).at = "loop"
    /\ Top(p).i > Len(Sections(p))
    /\ frames' = PopFrame(p)
    /\ UNCHANGED <<calls, courses_by_code, max_combinations, pc, course_codes,
                   valid_schedules, rejected_by_conflict, current_schedule, result>>
    /\ UNCHANGED <<conflictVars, parseVars, statusVars, annotated, examined, hostVars>>

\* return valid_schedules
Return(p) ==
    /\ pc[p] = "running" /\ frames[p] = <<>>
    /\ pc' = [pc EXCEPT ![p] = "done"]
    /\ result' = [result EXCEPT ![p] = valid_schedules[p]]
    /\ UNCHANGED <<calls, courses_by_code, max_combinations, course_codes,
                   valid_schedules, rejected_by_conflict, current_schedule, frames>>
    /\ UNCHANGED <<conflictVars, parseVars, statusVars, annotated, examined, hostVars>>

\* one iteration of "for i, combo in enumerate(combinations_raw)":
\* status_info = get_schedule_status(combo)
Annotate(p) ==
    /\ pc[p] = "done"
    /\ Len(annotated[p]) < Len(result[p])
    /\ annotated' = [annotated EXCEPT ![p] =
            Append(@, get_schedule_status(result[p][Len(@) + 1]))]
    /\ UNCHANGED <<genVars, conflictVars, parseVars, statusVars, hostVars>>

\* the host groups the loaded records and picks the courses asked for. The
\* endpoint answers 404 without records and 400 for a code without a group;
\* the command skips such a code, returns when none is left, and calls the
\* generator with its own cap
GroupByCode(p) ==
    /\ pc[p] = "request"
    /\ LET groups == group_by_code(courses_data[p])
           known  == SelectSeq(selection[p].codes, LAMBDA code :
                         \E j \in 1..Len(groups) : groups[j].code = code)
       IN  IF selection[p].host = "api"
           THEN IF courses_data[p] = <<>> \/ known # selection[p].codes
                THEN /\ pc' = [pc EXCEPT ![p] = "rejected"]
                     /\ UNCHANGED <<courses_by_code, max_combinations>>
                ELSE /\ pc' = [pc EXCEPT ![p] = "idle"]
                     /\ courses_by_code' = [courses_by_code EXCEPT ![p] =
                            selected_dict(groups, known)]
                     /\ UNCHANGED max_combinations
           ELSE IF known = <<>>
                THEN /\ pc' = [pc EXCEPT ![p] = "rejected"]
                     /\ UNCHANGED <<courses_by_code, max_combinations>>
                ELSE /\ pc' = [pc EXCEPT ![p] = "idle"]
                     /\ courses_by_code' = [courses_by_code EXCEPT ![p] =
                            selected_dict(groups, known)]
                     /\ max_combinations' = [max_combinations EXCEPT ![p] = CliCap]
    /\ UNCHANGED <<calls, course_codes, valid_schedules, rejected_by_conflict,
                   current_schedule, frames, result, examined>>
    /\ UNCHANGED <<conflictVars, parseVars, statusVars, annotated, hostVars>>

Next ==
    \E p \in Calls :
        \/ Call(p)
        \/ CapReturn(p)
        \/ Complete(p)
        \/ EnterLoop(p)
        \/ Iterate(p)
        \/ Undo(p)
        \/ LoopReturn(p)
        \/ Return(p)

Spec == Init /\ [][Next]_vars

\* the second invocation is made when the first has returned
NextPrefix == Next /\ (pc[1] # "done" => pc'[2] = pc[2])

SpecPrefix == InitPrefix /\ [][NextPrefix]_vars

\* one invocation on any input and any cap
InitTerminates == InitOn({1}, PairPool, MaxTotalSections)

\* the base case as far as the stack goes: backtrack returns
BaseCase(p) ==
    /\ pc[p] = "running" /\ frames[p] # <<>> /\ Top(p).at = "entry"
    /\ ~cap_reached(p)
    /\ Top(p).index = Len(course_codes[p])
    /\ frames' = PopFrame(p)

\* an iteration of the section loop as far as the pairs taken up go
TakeUp(p) ==
    /\ pc[p] = "running" /\ frames[p] # <<>> /\ Top(p).at = "loop"
    /\ Top(p).i <= Len(Sections(p))
    /\ examined' = [examined EXCEPT ![p] =
            Append(@, [f \in 1..Len(frames[p]) |-> frames[p][f].i])]

\* the interpreter runs the next statement of an invocation that has not
\* returned: no step that can be taken is put off for ever
Scheduling ==
    \A p \in Calls :
        /\ WF_vars(Call(p) \/ CapReturn(p) \/ EnterLoop(p) \/ Undo(p)
                      \/ LoopReturn(p) \/ Return(p))
        /\ WF_frames(BaseCase(p))
        /\ WF_examined(TakeUp(p))

SpecTerminates == InitTerminates /\ [][Next]_vars /\ Scheduling

SpecPair == InitPair /\ [][Next]_vars

SpecIsolation == InitIsolation /\ [][Next]_vars

\* schedules_conflict(a, b)
Test12 ==
    /\ "12" \notin tested
    /\ tested' = tested \cup {"12"}
    /\ conflict' = [conflict EXCEPT !["12"] = schedules_conflict(interval_a, interval_b)]
    /\ UNCHANGED <<genVars, interval_a, interval_b, parseVars, statusVars, annotated, hostVars>>

\* schedules_conflict(b, a)
Test21 ==
    /\ "21" \notin tested
    /\ tested' = tested \cup {"21"}
    /\ conflict' = [conflict EXCEPT !["21"] = schedules_conflict(interval_b, interval_a)]
    /\ UNCHANGED <<genVars, interval_a, interval_b, parseVars, statusVars, annotated, hostVars>>

NextConflict == Test12 \/ Test21

SpecConflict == InitConflict /\ [][NextConflict]_vars

NextUnscheduled == Next \/ (calls = {} /\ NextConflict)

SpecUnscheduled == InitUnscheduled /\ [][NextUnscheduled]_vars

\* result = parse_schedule(schedule_str)
Parse ==
    /\ ~parse_done
    /\ parsed' = parse_schedule(schedule_str)
    /\ parse_done' = TRUE
    /\ UNCHANGED <<genVars, conflictVars, statusVars, annotated, schedule_str, built, hostVars>>

NextParse == Parse

SpecParse == InitParse /\ [][NextParse]_vars

\* is_course_full(course) for each course of schedule
IsFull ==
    /\ "is_course_full" \notin applied
    /\ applied' = applied \cup {"is_course_full"}
    /\ full' = [i \in 1..Len(schedule) |-> is_course_full(schedule[i])]
    /\ UNCHANGED <<genVars, conflictVars, parseVars, annotated, schedule, status_info, hostVars>>

\* status_info = get_schedule_status(schedule)
Status ==
    /\ "get_schedule_status" \notin applied
    /\ applied' = applied \cup {"get_schedule_status"}
    /\ status_info' = get_schedule_status(schedule)
    /\ UNCHANGED <<genVars, conflictVars, parseVars, annotated, schedule, full, hostVars>>

NextFull == IsFull \/ Status

SpecFull == InitFull /\ [][NextFull]_vars

NextStatus == Next \/ \E p \in Calls : Annotate(p)

SpecStatus == InitStatus /\ [][NextStatus]_vars

NextHost == Next \/ \E p \in Calls : GroupByCode(p) \/ Annotate(p)

SpecHost == InitHost /\ [][NextHost]_vars

\* ------------------------------------------------------------------------
\* The brute-force reference of permutation_simulation.py
\* ------------------------------------------------------------------------

RECURSIVE Flatten(_)
Flatten(ls) == IF ls = <<>> THEN <<>> ELSE Head(ls) \o Flatten(Tail(ls))

\* itertools.product(*lists), in the order it yields
RECURSIVE product(_)
product(lists) ==
    IF lists = <<>> THEN << <<>> >>
    ELSE LET rest == product(Tail(lists))
         IN  Flatten([x \in 1..Len(Head(lists)) |->
                        [r \in 1..Len(rest) |-> <<Head(lists)[x]>> \o rest[r]]])

\* section_lists = [filtered_courses[code] for code in course_codes]
section_lists(d) == [i \in 1..Len(d) |-> d[i].sections]

\* the selections of one section per course without a conflicting pair
valid_permutations(d) ==
    SelectSeq(product(section_lists(d)), LAMBDA c : ~has_schedule_conflict(c))

Min(a, b) == IF a <= b THEN a ELSE b

\* ------------------------------------------------------------------------
\* Claims
\* ------------------------------------------------------------------------

Done(p) == pc[p] = "done"

\* two parsed schedules share a day and their times overlap (section 4.2 of
\* the specification, written without schedules_conflict)
SharedDayOverlap(a, b) ==
    /\ a # None /\ b # None
    /\ \E i \in 1..Len(a.days) : \E j \in 1..Len(b.days) : a.days[i] = b.days[j]
    /\ \A t \in {a.start, a.end, b.start, b.end} : t >= 0 /\ t <= 1440
    /\ a.start < b.end /\ b.start < a.end

\* C1: every combination returned by generate_schedule_combinations is
\* pairwise conflict-free: for every two positions i < j of it
\* schedules_conflict of the two parsed schedules is false, and the two
\* sections do not share a day with overlapping times.
CombinationsConflictFree ==
    \A p \in Calls : Done(p) =>
        \A c \in 1..Len(result[p]) :
            \A i \in 1..Len(result[p][c]) : \A j \in (i + 1)..Len(result[p][c]) :
                LET a == parse_schedule(result[p][c][i].schedule)
                    b == parse_schedule(result[p][c][j].schedule)
                IN  ~schedules_conflict(a, b) /\ ~SharedDayOverlap(a, b)

\* a search that rejected a section for a conflict and still returned a
\* combination of two sections or more
CombinationsConflictFreeWitness ==
    /\ Done(1)
    /\ \E c \in 1..Len(result[1]) : Len(result[1][c]) >= 2
    /\ \E i \in 1..Len(rejected_by_conflict[1]) : rejected_by_conflict[1][i] # <<>>

\* C2: with at least one course and a cap that does not bind (the number n of
\* conflict-free selections of the cartesian product is at most k) the
\* generator returns exactly those n selections, each once.
CompleteUnderCap ==
    \A p \in Calls :
        LET ref == valid_permutations(courses_by_code[p])
        IN  (Done(p) /\ Len(courses_by_code[p]) >= 1 /\ Len(ref) <= max_combinations[p]) =>
                /\ ToSet(result[p]) = ToSet(ref)
                /\ Len(result[p]) = Len(ref)
                /\ \A i, j \in 1..Len(result[p]) : i # j => result[p][i] # result[p][j]

\* a finished search on two courses or more under a cap that does not bind,
\* where one selection of the product is free of conflicts and another is not
CompleteUnderCapWitness ==
    /\ Done(1)
    /\ Len(courses_by_code[1]) >= 2
    /\ Len(valid_permutations(courses_by_code[1])) >= 1
    /\ Len(valid_permutations(courses_by_code[1])) <= max_combinations[1]
    /\ Len(product(section_lists(courses_by_code[1]))) >
          Len(valid_permutations(courses_by_code[1]))

\* C3: the result never has more than k combinations, and it has exactly
\* min(k, n) of them, n being the number of conflict-free selections.
CapRespected ==
    \A p \in Calls : Done(p) =>
        /\ Len(result[p]) <= max_combinations[p]
        /\ Len(result[p]) =
              Min(max_combinations[p], Len(valid_permutations(courses_by_code[p])))

\* a search the cap cut short: more conflict-free selections than the cap
CapRespectedWitness ==
    /\ Done(1)
    /\ Len(valid_permutations(courses_by_code[1])) > max_combinations[1]
    /\ Len(result[1]) = max_combinations[1]

\* C4: with zero courses the generator returns the empty list.
ZeroCoursesEmptyList ==
    \A p \in Calls : (Done(p) /\ courses_by_code[p] = <<>>) => result[p] = <<>>

\* C5: when a course of the input has no section the generator returns the
\* empty list, whatever the other courses hold.
EmptyCourseEmptyList ==
    \A p \in Calls :
        (Done(p) /\ \E i \in 1..Len(courses_by_code[p]) : courses_by_code[p][i].sections = <<>>)
            => result[p] = <<>>

\* a finished search on an input with a course without sections next to a
\* course with sections
EmptyCourseEmptyListWitness ==
    /\ Done(1)
    /\ \E i, j \in 1..Len(courses_by_code[1]) :
          /\ courses_by_code[1][i].sections = <<>>
          /\ courses_by_code[1][j].sections # <<>>

\* C6: every returned combination has as many sections as there are course
\* keys, and its i-th section is a section of the i-th course key.
OneSectionPerCourse ==
    \A p \in Calls : Done(p) =>
        \A c \in 1..Len(result[p]) :
            /\ Len(result[p][c]) = Len(Keys(courses_by_code[p]))
            /\ \A i \in 1..Len(result[p][c]) :
                  \E g \in 1..Len(Get(courses_by_code[p], Keys(courses_by_code[p])[i])) :
                      result[p][c][i] = Get(courses_by_code[p], Keys(courses_by_code[p])[i])[g]

\* two combinations returned for an input of two courses or more
OneSectionPerCourseWitness ==
    /\ Done(1)
    /\ Len(courses_by_code[1]) >= 2
    /\ Len(result[1]) >= 2

\* scenario B of the specification
ScenarioB ==
    build_courses_dict(
        << << ScheduleText(<<"M">>, Time12(9, 0, AM), Time12(10, 0, AM)),
              ScheduleText(<<"M">>, Time12(10, 0, AM), Time12(11, 0, AM)) >>,
           << ScheduleText(<<"M">>, Time12(10, 0, AM), Time12(10, 30, AM)) >> >>)

RanScenarioB(p) == Done(p) /\ courses_by_code[p] = ScenarioB /\ max_combinations[p] >= 2

\* C7 as stated: scenario B yields exactly 2 combinations.
ScenarioBTwoCombinations ==
    \A p \in Calls : RanScenarioB(p) => Len(result[p]) = 2

\* C7, amended: scenario B yields exactly 1 combination, the 09:00 - 10:00
\* section of X with the section of Y; the 10:00 - 11:00 section of X
\* overlaps the 10:00 - 10:30 section of Y.
ScenarioBOneCombination ==
    \A p \in Calls : RanScenarioB(p) =>
        result[p] = << <<ScenarioB[1].sections[1], ScenarioB[2].sections[1]>> >>

ScenarioBWitness == RanScenarioB(1)

\* C8: two invocations with the same course mapping and the same cap return
\* equal lists, the conflict-free selections in depth-first order (the order
\* of the cartesian product) up to the cap.
Deterministic ==
    \A p, q \in Calls :
        (/\ Done(p) /\ Done(q)
         /\ courses_by_code[p] = courses_by_code[q]
         /\ max_combinations[p] = max_combinations[q]) =>
            /\ result[p] = result[q]
            /\ LET ref == valid_permutations(courses_by_code[p])
               IN  result[p] = SubSeq(ref, 1, Min(max_combinations[p], Len(ref)))

\* both invocations returned, each two combinations or more
DeterministicWitness ==
    /\ Done(1) /\ Done(2)
    /\ Len(result[1]) >= 2

ConflictSymmetric ==
    tested = {"12", "21"} => conflict["12"] = conflict["21"]

\* both orders answered "conflict" for two different intervals
ConflictSymmetricWitness ==
    /\ tested = {"12", "21"}
    /\ interval_a # interval_b
    /\ conflict["12"] /\ conflict["21"]

\* C11: schedules_conflict is false whenever one of its two arguments is
\* absent, the other being any parsed schedule or absent too. So a section
\* whose text is "TBA", empty or of neither form is never rejected and never
\* the reason of a rejection, and with a cap that does not bind a course of one
\* such section next to one other course yields exactly one combination per
\* section of the other course.
UnscheduledNeverConflicts ==
    /\ \A o \in tested : (interval_a = None \/ interval_b = None) => ~conflict[o]
    /\ \A p \in calls : \A i \in 1..Len(rejected_by_conflict[p]) :
           \A r \in 1..Len(rejected_by_conflict[p][i]) :
               /\ rejected_by_conflict[p][i][r].schedule \notin UnscheduledTexts
               /\ \A j \in 1..Len(courses_by_code[p]) :
                      \A g \in 1..Len(courses_by_code[p][j].sections) :
                          LET section == courses_by_code[p][j].sections[g]
                          IN  section.code = rejected_by_conflict[p][i][r].conflicted_with
                                  => section.schedule \notin UnscheduledTexts
    /\ \A p \in calls : Done(p) /\ Len(courses_by_code[p]) = 2 =>
           \A i \in 1..2 :
               LET own   == courses_by_code[p][i].sections
                   other == courses_by_code[p][3 - i].sections
               IN  Len(own) = 1 /\ own[1].schedule \in UnscheduledTexts
                   /\ Len(other) <= max_combinations[p] =>
                       /\ Len(result[p]) = Len(other)
                       /\ \A g \in 1..Len(other) :
                              Cardinality({c \in 1..Len(result[p]) :
                                  ToSet(result[p][c]) = {own[1], other[g]}}) = 1

\* a course of one unscheduled section was combined with each of the two
\* sections of the other course, one of them with a schedule
UnscheduledNeverConflictsWitness ==
    /\ Done(1)
    /\ Len(courses_by_code[1]) = 2
    /\ Len(courses_by_code[1][1].sections) = 1
    /\ courses_by_code[1][1].sections[1].schedule \in UnscheduledTexts
    /\ Len(courses_by_code[1][2].sections) = 2
    /\ courses_by_code[1][2].sections[1].schedule \notin UnscheduledTexts
    /\ max_combinations[1] = 2
    /\ Len(result[1]) = 2

\* minutes since midnight of the time h:m of the 12-hour clock with marker ampm
ClockMinutes(h, m, ampm) == ((h % 12) + (IF ampm = PM THEN 12 ELSE 0)) * 60 + m

\* the text was written from a run of day codes and two times of the
\* 12-hour clock, each with its marker
WrittenFromClock ==
    /\ built.kind = "letters"
    /\ built.start_ampm # NoGroup /\ built.end_ampm # NoGroup
    /\ built.start_hour \in 1..12 /\ built.end_hour \in 1..12
    /\ built.start_min <= 59 /\ built.end_min <= 59

\* C12: for every text "<days> <start> - <end>" written from a non-empty
\* run of day codes and two times of the 12-hour clock, each with its AM or PM
\* marker (hours 1..12, 12:xx AM and 12:xx PM included), parse_schedule
\* returns exactly the set of days and exactly the start and end minutes
\* since midnight the text was written from.
ParseRoundTrip ==
    parse_done /\ WrittenFromClock =>
        /\ parsed # None
        /\ ToSet(parsed.days) = ToSet(built.days)
        /\ parsed.start = ClockMinutes(built.start_hour, built.start_min, built.start_ampm)
        /\ parsed.end = ClockMinutes(built.end_hour, built.end_min, built.end_ampm)

\* the text was written from a day token both regular expressions know and
\* two times
WrittenFromDays == built.kind \in {"letters", "style", "name"}

\* the hour of the 24-hour clock for the hour h of the 12-hour clock
ClockHour(h, ampm) ==
    IF ampm = PM THEN (IF h < 12 THEN h + 12 ELSE 12)
    ELSE (IF h = 12 THEN 0 ELSE h)

\* C13: in the day-letter form and in the day-name form alike, a boundary
\* with a marker is converted to the 24-hour clock: PM with an hour below 12
\* adds 12, PM with hour 12 stays 12, AM with hour 12 becomes hour 0, AM
\* with an hour of 1..11 is unchanged.
MarkedHoursConverted ==
    parse_done /\ WrittenFromDays =>
        /\ built.start_ampm # NoGroup /\ built.start_hour \in 1..12 /\ parsed # None =>
               parsed.start = ClockHour(built.start_hour, built.start_ampm) * 60 + built.start_min
        /\ built.end_ampm # NoGroup /\ built.end_hour \in 1..12 /\ parsed # None =>
               parsed.end = ClockHour(built.end_hour, built.end_ampm) * 60 + built.end_min

\* an hour written without a marker, read as the afternoon when it is 1..7
AssumedHour(h) == IF h \in 1..7 THEN h + 12 ELSE h

\* C14: when neither boundary has a marker, each boundary hour in 1..7 is
\* raised by 12 and an hour of 0 or of 8 and above is kept, the start and the
\* end each on its own; when at least one boundary has a marker, the rule is
\* applied to neither boundary and an hour without a marker is kept.
BareHoursAssumedAfternoon ==
    parse_done /\ WrittenFromDays =>
        /\ parsed # None
        /\ built.start_ampm = NoGroup /\ built.end_ampm = NoGroup =>
               /\ parsed.start = AssumedHour(built.start_hour) * 60 + built.start_min
               /\ parsed.end = AssumedHour(built.end_hour) * 60 + built.end_min
        /\ built.start_ampm = NoGroup /\ built.end_ampm # NoGroup =>
               parsed.start = built.start_hour * 60 + built.start_min
        /\ built.end_ampm = NoGroup /\ built.start_ampm # NoGroup =>
               parsed.end = built.end_hour * 60 + built.end_min

\* "M 1:00 - 8:59" was parsed: the start moved to 13:00, the end stayed
BareHoursAssumedAfternoonWitness ==
    /\ parse_done
    /\ WrittenFromDays
    /\ built.start_ampm = NoGroup /\ built.end_ampm = NoGroup
    /\ built.start_hour = 1 /\ built.end_hour = 8 /\ built.end_min = 59
    /\ parsed # None
    /\ parsed.start = 13 * 60 + built.start_min
    /\ parsed.end = 8 * 60 + 59

\* C15: whenever parse_schedule returns an interval, its start and its end
\* are integers within 0..1440, for every text the time grammar accepts (an
\* hour of one or two digits, a minute of two digits, an optional marker).
ParsedWithinDay ==
    parse_done /\ parsed # None =>
        /\ parsed.start \in 0..1440
        /\ parsed.end \in 0..1440

\* C16: parse_schedule returns None, and raises nothing, when the text is
\* absent, empty, "TBA" in any case, of neither form, or led by a word that
\* starts with no name of day_mapping; in every other case it returns an
\* interval.
NoneForNoSchedule ==
    parse_done =>
        (parsed = None <=> built.kind \in {"absent", "empty", "tba", "neither", "word"})

\* a text led by a word that is no day name, with two times, gave None
NoneForNoScheduleWitness ==
    /\ parse_done
    /\ built.kind = "word"
    /\ parsed = None

\* C17: is_course_full returns false, and raises nothing, for every section
\* whose enrolled field is absent, has no slash, or has a part that is no
\* integer.
FullFailsOpen ==
    "is_course_full" \in applied =>
        \A i \in 1..Len(schedule) :
            \/ "enrolled" \notin DOMAIN schedule[i]
            \/ schedule[i].enrolled \in NoSlashEnrolled \cup NonIntegerEnrolled
            => ~full[i]

\* the positions of the sections of a combination that are full
FullPositions(combination) ==
    {i \in 1..Len(combination) : is_course_full(combination[i])}

\* info names the codes of exactly the full sections of the combination, in
\* the order of the combination, and is "unavailable" exactly when there is
\* one
StatusOf(combination, info) ==
    /\ info.status \in {"available", "unavailable"}
    /\ info.status = "unavailable" <=> FullPositions(combination) # {}
    /\ Len(info.full_courses) = Cardinality(FullPositions(combination))
    /\ \A i \in FullPositions(combination) :
           info.full_courses[Cardinality({j \in FullPositions(combination) : j <= i})]
               = combination[i].code
    /\ info.status = "unavailable" <=> info.full_courses # <<>>

\* C19: get_schedule_status answers "unavailable" exactly when at least one
\* section of the combination is full by is_course_full and "available"
\* otherwise; full_courses holds the codes of exactly the full sections in
\* the order of the combination; the status is "unavailable" exactly when
\* full_courses is not empty; the empty combination is "available".
StatusNamesFullSections ==
    "get_schedule_status" \in applied =>
        /\ StatusOf(schedule, status_info)
        /\ schedule = <<>> => status_info.status = "available"

\* a combination of a section with seats left and a full one was classified
StatusNamesFullSectionsWitness ==
    /\ "get_schedule_status" \in applied
    /\ Len(schedule) = 2
    /\ "enrolled" \in DOMAIN schedule[1] /\ schedule[1].enrolled = EnrolledText(12, 30)
    /\ "enrolled" \in DOMAIN schedule[2] /\ schedule[2].enrolled = EnrolledText(30, 30)
    /\ status_info.status = "unavailable"
    /\ status_info.full_courses = <<schedule[2].code>>

\* C18: for an enrolled text "N/M" of two integers is_course_full is true
\* exactly when N >= M; so a section with "30/30" in a generated combination
\* makes the status of the combination "unavailable" and its code is in
\* full_courses.
FullAtCapacity ==
    \A p \in calls : \A c \in 1..Len(annotated[p]) :
        \A i \in 1..Len(result[p][c]) : \A seats \in SeatCounts :
            result[p][c][i].enrolled = EnrolledText(seats[1], seats[2]) =>
                /\ result[p][c][i].code \in ToSet(annotated[p][c].full_courses)
                       <=> seats[1] >= seats[2]
                /\ seats[1] >= seats[2] => annotated[p][c].status = "unavailable"

\* a generated combination of a section with "12/30" and one with "30/30"
\* was classified unavailable for the second
FullAtCapacityWitness ==
    /\ Done(1)
    /\ Len(annotated[1]) >= 1
    /\ Len(result[1][1]) = 2
    /\ result[1][1][1].enrolled = EnrolledText(12, 30)
    /\ result[1][1][2].enrolled = EnrolledText(30, 30)
    /\ annotated[1][1].status = "unavailable"
    /\ annotated[1][1].full_courses = <<result[1][1][2].code>>

\* C20: generate_schedule_combinations and get_schedule_status leave their
\* inputs as they were: no step changes the course mapping, a list of
\* sections or a field of a section, nor a combination once returned; and
\* every section of a returned combination is one of the sections of the
\* input, with every field as in the input.
InputsUntouched ==
    [][/\ courses_by_code' = courses_by_code
       /\ \A p \in calls :
              /\ pc[p] = "done" => result'[p] = result[p]
              /\ pc'[p] = "done" =>
                     \A c \in 1..Len(result'[p]) : \A i \in 1..Len(result'[p][c]) :
                         result'[p][c][i] \in ToSet(courses_by_code[p][i].sections)]_vars

\* the combinations of an input of two courses were returned and classified
InputsUntouchedWitness ==
    /\ Done(1)
    /\ Len(courses_by_code[1]) = 2
    /\ Len(result[1]) >= 1
    /\ Len(annotated[1]) = Len(result[1])
    /\ \A c \in 1..Len(result[1]) : Len(result[1][c]) = 2

\* what an invocation returns on its own: the conflict-free selections in
\* the order of the product, up to the cap
ReturnedAlone(p) ==
    LET ref == valid_permutations(courses_by_code[p])
    IN  SubSeq(ref, 1, Min(max_combinations[p], Len(ref)))

\* C21: when two invocations of generate_schedule_combinations run
\* interleaved, on the same input or on different inputs, each returns exactly
\* the list it returns when run alone, and no step of one invocation changes
\* the search path, the result list or the rejection log of the other.
Isolated ==
    [][\A p \in Calls :
          /\ pc'[p] = pc[p] /\ frames'[p] = frames[p] =>
                 /\ current_schedule'[p] = current_schedule[p]
                 /\ valid_schedules'[p] = valid_schedules[p]
                 /\ rejected_by_conflict'[p] = rejected_by_conflict[p]
                 /\ result'[p] = result[p]
          /\ p \in calls /\ pc'[p] = "done" => result'[p] = ReturnedAlone(p)]_vars

\* two invocations on different inputs both returned a combination
IsolatedWitness ==
    /\ Done(1) /\ Done(2)
    /\ courses_by_code[1] # courses_by_code[2]
    /\ Len(result[1]) >= 1 /\ Len(result[2]) >= 1
    /\ rejected_by_conflict[2][2] # <<>>

\* a section record with status "DISSOLVED" in any case
Dissolved(course) ==
    Upper(status_of(course)) = <<"D", "I", "S", "S", "O", "L", "V", "E", "D">>

\* C22: sections whose status is "DISSOLVED", compared without regard to
\* case, are left out before generation: no combination the endpoint
\* generate_schedules or the command schedule_generator gets from the
\* generator has such a section, whatever the loaded records hold.
NoDissolvedSection ==
    \A p \in calls :
        /\ \A i \in 1..Len(courses_by_code[p]) :
               \A g \in 1..Len(courses_by_code[p][i].sections) :
                   ~Dissolved(courses_by_code[p][i].sections[g])
        /\ Done(p) =>
               \A c \in 1..Len(result[p]) : \A i \in 1..Len(result[p][c]) :
                   ~Dissolved(result[p][c][i])

\* the loaded records held a section written "Dissolved" of a course asked
\* for, and a combination was returned
NoDissolvedSectionWitness ==
    /\ Done(1)
    /\ Len(result[1]) >= 1
    /\ Len(result[1][1]) = 2
    /\ \E g \in 1..Len(courses_data[1]) :
           /\ courses_data[1][g].status = <<"D", "i", "s", "s", "o", "l", "v", "e", "d">>
           /\ course_of(courses_data[1][g]) = selection[1].codes[1]

\* C23: once the number of stored results equals max_combinations the whole
\* search stops at once: no further candidate section is parsed or tested
\* for a conflict, no rejection is recorded and no further recursive step is
\* entered, in the current branch or in a loop over sibling sections that
\* encloses it.
StopsAtCap ==
    [][\A p \in calls :
          pc[p] = "running" /\ Len(valid_schedules[p]) = max_combinations[p] =>
              /\ examined'[p] = examined[p]
              /\ rejected_by_conflict'[p] = rejected_by_conflict[p]
              /\ Len(frames'[p]) <= Len(frames[p])]_vars

\* the path of p holds one section of each of the first d courses
PathOfDepth(p, d) ==
    /\ Len(current_schedule[p]) = d
    /\ \A j \in 1..d :
           current_schedule[p][j] \in ToSet(courses_by_code[p][j].sections)

\* the path fits the frame on top of the stack: d sections on entry to the
\* step of depth d and in its loop, one more while its recursive call runs
PathFitsStack(p) ==
    /\ pc[p] = "running" /\ frames[p] # <<>> =>
           PathOfDepth(p, Top(p).index + (IF Top(p).at = "call" THEN 1 ELSE 0))
    /\ pc[p] = "running" /\ frames[p] = <<>> => current_schedule[p] = <<>>
    /\ pc[p] = "done" => current_schedule[p] = <<>>

\* C24: on entry to every search step at depth d the path holds exactly d
\* sections, one from each of the first d courses; every push is undone by a
\* pop after the recursive call returns, so the path is empty when the
\* search ends; a combination is stored as a copy only when the path is
\* complete, and a stored combination is never changed by later pushes and
\* pops.
BacktrackingDiscipline ==
    [][\A p \in calls :
          /\ PathFitsStack(p)'
          /\ pc[p] = "running" =>
                 \/ valid_schedules'[p] = valid_schedules[p]
                 \/ /\ valid_schedules'[p] = Append(valid_schedules[p], current_schedule[p])
                    /\ Len(current_schedule[p]) = Len(course_codes[p])
                    /\ current_schedule'[p] = current_schedule[p]]_vars

\* a search of two courses stored a combination, rejected a section, and
\* ended with an empty path
BacktrackingDisciplineWitness ==
    /\ Done(1)
    /\ Len(courses_by_code[1]) = 2
    /\ Len(result[1]) >= 1
    /\ rejected_by_conflict[1][2] # <<>>
    /\ current_schedule[1] = <<>>


\* ---------------------------------------------------------------------
\* The scrape tasks of the API: the two endpoints that start a task, the
\* background worker, whose attribute writes are separate steps of a thread
\* of the pool, and the endpoint that polls a task.

\* the number of course codes a scrape request names, at most
MaxScrapeCourses == 1

\* PROJECT_ROOT and JSON_DIR, as the components of an absolute path
PROJECT_ROOT == <<<<"s", "r", "v">>, <<"i", "s", "m", "i", "s">>>>

JSON_DIR == PROJECT_ROOT \o <<<<"g", "e", "n", "e", "r", "a", "t", "e", "d">>, <<"j", "s", "o", "n">>>>

\* period_map.get(academic_period, "courses")
period_name(academic_period) ==
      CASE academic_period = "FIRST_SEMESTER" -> <<"1", "s", "t", "-", "S", "e", "m", "e", "s", "t", "e", "r">>
        [] academic_period = "SECOND_SEMESTER" -> <<"2", "n", "d", "-", "S", "e", "m", "e", "s", "t", "e", "r">>
        [] academic_period = "SUMMER" -> <<"S", "u", "m", "m", "e", "r">>
        [] academic_period = "FIRST_TRIMESTER" -> <<"1", "s", "t", "-", "T", "r", "i", "m", "e", "s", "t", "e", "r">>
        [] academic_period = "SECOND_TRIMESTER" -> <<"2", "n", "d", "-", "T", "r", "i", "m", "e", "s", "t", "e", "r">>
        [] academic_period = "THIRD_TRIMESTER" -> <<"3", "r", "d", "-", "T", "r", "i", "m", "e", "s", "t", "e", "r">>
        [] academic_period = "TRANSITION_SEMESTER" -> <<"T", "r", "a", "n", "s", "i", "t", "i", "o", "n", "-", "T", "e", "r", "m">>
        [] OTHER -> <<"c", "o", "u", "r", "s", "e", "s">>

\* os.path.join(JSON_DIR, f"{period_name}_{academic_year}{scrape_type_suffix}.json")
scrape_filename(request_data, scrape_type) ==
    JSON_DIR \o << period_name(request_data.academic_period) \o <<"_">>
                   \o request_data.academic_year
                   \o (IF scrape_type = "specific" THEN <<"_", "s", "p", "e", "c", "i", "f", "i", "c">> ELSE <<"_", "a", "l", "l">>)
                   \o <<".", "j", "s", "o", "n">> >>

\* os.path.basename(filename)
basename(filename) == filename[Len(filename)]

\* the academic period and year a scrape request names
ScrapePeriods == {"FIRST_SEMESTER"}

\* the course codes a scrape request names
ScrapeCodes == {CourseCodes[1]}

ScrapeYears == { <<"2", "0", "2", "5">> }

\* the record json_scrape builds of one row of the table
ScrapedRow(code, group) ==
    [code        |-> <<code, group>>,
     description |-> <<"I", "n", "t", "r", "o">>,
     status      |-> <<"B", "L", "O", "C", "K", "S", "E", "C", "T", "I", "O", "N">>,
     teacher     |-> <<"T", "B", "A">>,
     schedule    |-> ScheduleText(<<"M">>, Time12(9, 0, AM), Time12(10, 0, AM)),
     room        |-> <<"T", "B", "A">>,
     department  |-> <<"C", "S">>,
     enrolled    |-> <<"0", "/", "4", "0">>]

\* Course(**c): the eight fields, each a string
Course(c) ==
    [code |-> c.code, description |-> c.description, status |-> c.status,
     teacher |-> c.teacher, schedule |-> c.schedule, room |-> c.room,
     department |-> c.department, enrolled |-> c.enrolled]

\* ScrapeStatus(task_id=..., status=..., ...) with the defaults of the class
ScrapeStatus(task_id, status, progress, total, current_task) ==
    [task_id |-> task_id, status |-> status, progress |-> progress, total |-> total,
     current_task |-> current_task, courses |-> Absent, error |-> Absent,
     saved_file |-> Absent]

\* scraping_tasks[task_id].<attribute> = value
SetAttribute(t, attribute, value) ==
    [scraping_tasks EXCEPT ![t] = [@ EXCEPT ![attribute] = value]]

\* the worker of t moves on
GoTo(t, at) == [worker EXCEPT ![t].at = at]

\* a statement of the try block raises: control is in the except clause
Raise(t, e) == [worker EXCEPT ![t].at = "except", ![t].e = e]

\* POST /api/scrape/specific: a fresh task id, the record and the worker added
scrape_specific_courses(t) ==
    /\ t \notin DOMAIN scraping_tasks
    /\ \E n \in 1..MaxScrapeCourses : \E courses \in [1..n -> ScrapeCodes] :
       \E period \in ScrapePeriods : \E year \in ScrapeYears :
           /\ scraping_tasks' = (t :> ScrapeStatus(t, "pending", Present(0), Present(n),
                                                   Present(<<"Queued">>)))
                                @@ scraping_tasks
           /\ worker' = [worker EXCEPT ![t] =
                  [NotStarted EXCEPT !.at = "queued", !.scrape_type = "specific",
                       !.request_data = [courses |-> courses, academic_period |-> period,
                                         academic_year |-> year]]]
    /\ UNCHANGED <<polled, files, opened, served, courses_data, selection>>
    /\ UNCHANGED <<genVars, conflictVars, parseVars, statusVars, annotated>>

\* POST /api/scrape/all
scrape_all_courses(t) ==
    /\ t \notin DOMAIN scraping_tasks
    /\ \E period \in ScrapePeriods : \E year \in ScrapeYears :
           /\ scraping_tasks' = (t :> ScrapeStatus(t, "pending", Absent, Absent,
                                                   Present(<<"Queued">>)))
                                @@ scraping_tasks
           /\ worker' = [worker EXCEPT ![t] =
                  [NotStarted EXCEPT !.at = "queued", !.scrape_type = "all",
                       !.request_data = [courses |-> <<>>, academic_period |-> period,
                                         academic_year |-> year]]]
    /\ UNCHANGED <<polled, files, opened, served, courses_data, selection>>
    /\ UNCHANGED <<genVars, conflictVars, parseVars, statusVars, annotated>>

\* what a step of the worker leaves alone
WorkerFrame ==
    /\ UNCHANGED <<polled, opened, served, courses_data, selection>>
    /\ UNCHANGED <<genVars, conflictVars, parseVars, statusVars, annotated>>

\* scraping_tasks[task_id].status = "running"
SetRunning(t) ==
    /\ worker[t].at = "queued"
    /\ scraping_tasks' = SetAttribute(t, "status", "running")
    /\ worker' = GoTo(t, "running")
    /\ UNCHANGED files
    /\ WorkerFrame

\* the imports and the launch of the browser, any of which may raise
Launch(t) ==
    /\ worker[t].at = "running"
    /\ scraping_tasks' = SetAttribute(t, "current_task", Present(<<"Initializing browser...">>))
    /\ \/ worker' = GoTo(t, "launched")
       \/ worker' = Raise(t, "BrowserType.launch: Executable doesn't exist")
    /\ UNCHANGED files
    /\ WorkerFrame

\* the login, which raises on a page that does not load or on a bad password
Login(t) ==
    /\ worker[t].at = "launched"
    /\ scraping_tasks' = SetAttribute(t, "current_task", Present(<<"Logging in...">>))
    /\ \/ worker' = GoTo(t, "logged_in")
       \/ worker' = Raise(t, "Timeout 45000ms exceeded.")
    /\ UNCHANGED files
    /\ WorkerFrame

\* the course schedule page and its filters
Navigate(t) ==
    /\ worker[t].at = "logged_in"
    /\ scraping_tasks' = SetAttribute(t, "current_task", Present(<<"Navigating to courses...">>))
    /\ \/ worker' = GoTo(t, "filtered")
       \/ worker' = Raise(t, "Page title expected to match")
    /\ UNCHANGED files
    /\ WorkerFrame

\* scrape_type == "specific": total is set and the loop over the codes begins
BeginSpecific(t) ==
    /\ worker[t].at = "filtered" /\ worker[t].scrape_type = "specific"
    /\ scraping_tasks' = SetAttribute(t, "total",
                             Present(Len(worker[t].request_data.courses)))
    /\ worker' = [worker EXCEPT ![t].at = "loop", ![t].idx = 0]
    /\ UNCHANGED files
    /\ WorkerFrame

\* one iteration of the loop over the codes: the search form may raise; in
\* the inner try a table without rows raises and the loop carries on
ScrapeCourse(t) ==
    /\ worker[t].at = "loop" /\ worker[t].idx < Len(worker[t].request_data.courses)
    /\ LET course_code == worker[t].request_data.courses[worker[t].idx + 1]
       IN  /\ scraping_tasks' =
                  [scraping_tasks EXCEPT ![t] =
                      [@ EXCEPT !.progress = Present(worker[t].idx),
                                !.current_task = Present(<<"Scraping ", course_code, "...">>)]]
           /\ \/ worker' = Raise(t, "Locator.fill: Timeout 30000ms exceeded.")
              \/ worker' = [worker EXCEPT ![t].idx = @ + 1]
              \/ worker' = [worker EXCEPT ![t].idx = @ + 1,
                                ![t].courses_data = @ \o <<ScrapedRow(course_code, 1)>>]
    /\ UNCHANGED files
    /\ WorkerFrame

\* the loop is over: progress = len(courses)
EndSpecific(t) ==
    /\ worker[t].at = "loop" /\ worker[t].idx = Len(worker[t].request_data.courses)
    /\ scraping_tasks' = SetAttribute(t, "progress",
                             Present(Len(worker[t].request_data.courses)))
    /\ worker' = GoTo(t, "scraped")
    /\ UNCHANGED files
    /\ WorkerFrame

\* scrape_type == "all": one search without a code
ScrapeAll(t) ==
    /\ worker[t].at = "filtered" /\ worker[t].scrape_type = "all"
    /\ scraping_tasks' = SetAttribute(t, "current_task", Present(<<"Scraping all courses...">>))
    /\ \/ worker' = Raise(t, "Timeout 45000ms exceeded.")
       \/ \E n \in 0..MaxScrapeCourses :
              worker' = [worker EXCEPT ![t].at = "scraped",
                  ![t].courses_data = [g \in 1..n |-> ScrapedRow(CourseCodes[g], 1)]]
    /\ UNCHANGED files
    /\ WorkerFrame

\* the browser is closed and the records are written to the file; open and
\* json.dump may raise, before or after the file exists
Save(t) ==
    /\ worker[t].at = "scraped"
    /\ LET filename == scrape_filename(worker[t].request_data, worker[t].scrape_type)
       IN  \/ /\ worker' = Raise(t, "[Errno 13] Permission denied")
              /\ UNCHANGED files
           \/ /\ worker' = Raise(t, "[Errno 28] No space left on device")
              /\ files' = files \cup {filename}
           \/ /\ worker' = [worker EXCEPT ![t].at = "saved", ![t].filename = filename]
              /\ files' = files \cup {filename}
    /\ UNCHANGED scraping_tasks
    /\ WorkerFrame

\* scraping_tasks[task_id].status = "completed"
SetCompleted(t) ==
    /\ worker[t].at = "saved"
    /\ scraping_tasks' = SetAttribute(t, "status", "completed")
    /\ worker' = GoTo(t, "completed")
    /\ UNCHANGED files
    /\ WorkerFrame

\* scraping_tasks[task_id].current_task = "Done!"
SetDone(t) ==
    /\ worker[t].at = "completed"
    /\ scraping_tasks' = SetAttribute(t, "current_task", Present(<<"Done!">>))
    /\ worker' = GoTo(t, "done")
    /\ UNCHANGED files
    /\ WorkerFrame

\* the records turn into Course objects although one of them may be refused
SetCoursesRaising(t) ==
    /\ worker[t].at = "done"
    /\ \/ /\ scraping_tasks' = SetAttribute(t, "courses",
                 Present([g \in 1..Len(worker[t].courses_data) |->
                             Course(worker[t].courses_data[g])]))
          /\ worker' = GoTo(t, "courses")
       \/ /\ worker' = Raise(t, "1 validation error for Course")
          /\ UNCHANGED scraping_tasks
    /\ UNCHANGED files
    /\ WorkerFrame

\* scraping_tasks[task_id].courses = [Course(**c) for c in courses_data]: every
\* record json_scrape builds has the eight fields, each a string
SetCourses(t) ==
    /\ worker[t].at = "done"
    /\ scraping_tasks' = SetAttribute(t, "courses",
           Present([g \in 1..Len(worker[t].courses_data) |->
                       Course(worker[t].courses_data[g])]))
    /\ worker' = GoTo(t, "courses")
    /\ UNCHANGED files
    /\ WorkerFrame

\* scraping_tasks[task_id].saved_file = os.path.basename(filename)
SetSavedFile(t) ==
    /\ worker[t].at = "courses"
    /\ scraping_tasks' = SetAttribute(t, "saved_file", Present(basename(worker[t].filename)))
    /\ worker' = GoTo(t, "returned")
    /\ UNCHANGED files
    /\ WorkerFrame

\* except Exception as e: scraping_tasks[task_id].status = "failed"
SetFailed(t) ==
    /\ worker[t].at = "except"
    /\ scraping_tasks' = SetAttribute(t, "status", "failed")
    /\ worker' = GoTo(t, "failed")
    /\ UNCHANGED files
    /\ WorkerFrame

\* scraping_tasks[task_id].error = str(e)
SetError(t) ==
    /\ worker[t].at = "failed"
    /\ scraping_tasks' = SetAttribute(t, "error", Present(worker[t].e))
    /\ worker' = GoTo(t, "returned")
    /\ UNCHANGED files
    /\ WorkerFrame

\* GET /api/scrape/status/{task_id}: 404 for an unknown id, or the record as
\* it is at this moment
get_scrape_status(t) ==
    /\ polled' = IF t \notin DOMAIN scraping_tasks
                  THEN Present([status_code |-> 404])
                  ELSE Present([status_code |-> 200, body |-> scraping_tasks[t]])
    /\ UNCHANGED <<scraping_tasks, worker, files, opened, served, courses_data, selection>>
    /\ UNCHANGED <<genVars, conflictVars, parseVars, statusVars, annotated>>

scrape_task_worker(t) ==
    \/ SetRunning(t)
    \/ Launch(t)
    \/ Login(t)
    \/ Navigate(t)
    \/ BeginSpecific(t)
    \/ ScrapeCourse(t)
    \/ EndSpecific(t)
    \/ ScrapeAll(t)
    \/ Save(t)
    \/ SetCompleted(t)
    \/ SetDone(t)
    \/ SetCourses(t)
    \/ SetSavedFile(t)
    \/ SetFailed(t)
    \/ SetError(t)

\* no task yet, and nothing else of the program runs
InitScrape ==
    /\ GeneratorIdle
    /\ ConflictIdle
    /\ ParseIdle
    /\ StatusIdle

NextScrape ==
    \E t \in Tasks :
        \/ scrape_specific_courses(t)
        \/ scrape_all_courses(t)
        \/ scrape_task_worker(t)
        \/ get_scrape_status(t)

SpecScrape == InitScrape /\ [][NextScrape]_vars

\* the status of task t changes in this step from one value to another
StatusStep(t, from, to) ==
    /\ scraping_tasks[t].status = from
    /\ scraping_tasks'[t].status = to

\* C25: a scrape task is created with status "pending" and its status only
\* moves from "pending" to "running", then from "running" to "completed" or
\* from "running" to "failed"; a task that is "completed" or "failed" never
\* changes status again, whatever the outcome of the worker, exceptions
\* raised by its steps included.
TaskLifecycle ==
    [][\A t \in Tasks :
          /\ t \notin DOMAIN scraping_tasks /\ t \in DOMAIN scraping_tasks' =>
                 scraping_tasks'[t].status = "pending"
          /\ t \in DOMAIN scraping_tasks =>
                 /\ t \in DOMAIN scraping_tasks'
                 /\ \/ scraping_tasks'[t].status = scraping_tasks[t].status
                    \/ StatusStep(t, "pending", "running")
                    \/ StatusStep(t, "running", "completed")
                    \/ StatusStep(t, "running", "failed")]_vars

\* one worker has returned from a task that completed and the other from a
\* task that failed
TaskLifecycleWitness ==
    /\ DOMAIN scraping_tasks = Tasks
    /\ \A t \in Tasks : worker[t].at = "returned"
    /\ \E t \in Tasks : scraping_tasks[t].status = "completed"
    /\ \E t \in Tasks : scraping_tasks[t].status = "failed"

\* C26: a poll of a task answers with status "completed" only once courses
\* and saved_file are set, and with status "failed" only once error is set.
PolledConsistent ==
    polled # Absent /\ polled[1].status_code = 200 =>
        LET body == polled[1].body
        IN  /\ body.status = "completed" =>
                   body.courses # Absent /\ body.saved_file # Absent
            /\ body.status = "failed" => body.error # Absent


\* C27: the cap cuts the result to a prefix: with R the list an unbounded
\* search returns, the search with cap k returns the first min(k, len R)
\* entries of R in the same order, so for k <= k' the result with cap k is a
\* prefix of the result with cap k'.
PrefixOfCap ==
    \A p \in Calls : \A q \in Calls :
        Done(p) /\ Done(q) /\ max_combinations[p] <= max_combinations[q] =>
            /\ result[p] = SubSeq(result[q], 1, Min(max_combinations[p], Len(result[q])))
            /\ Len(courses_by_code[p]) >= 1 =>
                   LET R == valid_permutations(courses_by_code[p])
                   IN  result[p] = SubSeq(R, 1, Min(max_combinations[p], Len(R)))

\* the search with the smaller cap stopped at its cap and the search with
\* the larger cap returned more
PrefixOfCapWitness ==
    /\ Done(1) /\ Done(2)
    /\ max_combinations[1] < max_combinations[2]
    /\ Len(result[1]) = max_combinations[1]
    /\ Len(result[2]) > Len(result[1])


\* the stack of backtrack is no deeper than the courses are many
DepthWithinCourses(p) ==
    /\ Len(frames[p]) <= Len(course_codes[p]) + 1
    /\ \A f \in 1..Len(frames[p]) : frames[p][f].index <= Len(course_codes[p])

\* no path was taken up with the same candidate section twice
ExaminedOnce(p) ==
    \A a \in 1..Len(examined[p]) : \A b \in 1..Len(examined[p]) :
        a # b => examined[p][a] # examined[p][b]

\* C28: the generator terminates for every finite input and cap: the
\* recursion depth never exceeds the number of courses and each pair of a
\* path and a candidate section is examined at most once.
Terminates ==
    /\ <>(\A p \in calls : Done(p))
    /\ [](\A p \in calls : DepthWithinCourses(p) /\ ExaminedOnce(p))

\* a search of two courses that examined four pairs or more has returned
TerminatesWitness ==
    /\ Done(1)
    /\ Len(course_codes[1]) >= 2
    /\ Len(examined[1]) >= 4
    /\ \E a \in 1..Len(examined[1]) : Len(examined[1][a]) = 2


\* the text was written from two times of one day, the start before the end:
\* both with a marker, as times of the 12-hour clock, or both without, as
\* times of the 24-hour clock
WrittenStartBeforeEnd ==
    /\ WrittenFromDays
    /\ built.start_min <= 59 /\ built.end_min <= 59
    /\ \/ /\ built.start_ampm # NoGroup /\ built.end_ampm # NoGroup
          /\ built.start_hour \in 1..12 /\ built.end_hour \in 1..12
          /\ ClockMinutes(built.start_hour, built.start_min, built.start_ampm)
                < ClockMinutes(built.end_hour, built.end_min, built.end_ampm)
       \/ /\ built.start_ampm = NoGroup /\ built.end_ampm = NoGroup
          /\ built.start_hour \in 0..23 /\ built.end_hour \in 0..23
          /\ built.start_hour * 60 + built.start_min < built.end_hour * 60 + built.end_min

\* C29: whenever parse_schedule returns an interval for a text whose written
\* start time precedes its written end time on the same day, the returned
\* start is strictly less than the returned end: no inverted interval, with
\* or without AM/PM markers.
NeverInverted ==
    parse_done /\ parsed # None /\ WrittenStartBeforeEnd => parsed.start < parsed.end


\* ---------------------------------------------------------------------
\* The endpoints that take a file name from the client. A path is the list
\* of its components from the root.

\* "sub in text"
Contains(text, sub) ==
    \E i \in 1..(Len(text) - Len(sub) + 1) : SubSeq(text, i, i + Len(sub) - 1) = sub

\* text.endswith(suffix)
endswith(text, suffix) ==
    /\ Len(suffix) <= Len(text)
    /\ SubSeq(text, Len(text) - Len(suffix) + 1, Len(text)) = suffix

\* os.path.isabs(filename)
isabs(filename) == filename # <<>> /\ Head(filename) = "/"

\* os.path.join(directory, filename): an absolute filename drops the directory
join(directory, filename) ==
    IF isabs(filename) THEN split(filename, "/")
    ELSE directory \o split(filename, "/")

\* the file a path names once the system has followed its "." and ".."
RECURSIVE resolve(_)
resolve(path) ==
    IF path = <<>> THEN <<>>
    ELSE LET front == resolve(SubSeq(path, 1, Len(path) - 1))
             last  == path[Len(path)]
         IN  IF last = <<>> \/ last = <<".">> THEN front
             ELSE IF last = <<".", ".">>
                  THEN (IF front = <<>> THEN <<>> ELSE SubSeq(front, 1, Len(front) - 1))
                  ELSE Append(front, last)

\* os.path.exists(path), in a state where the files of fs exist
exists(path, fs) == resolve(path) \in fs

\* the files on the disk of the server: two in JSON_DIR, one in a directory
\* of JSON_DIR, one in the directory above JSON_DIR and one in the root
StoredFiles ==
    { JSON_DIR \o <<<<"a", ".", "j", "s", "o", "n">>>>,
      JSON_DIR \o <<<<"b", ".", "t", "x", "t">>>>,
      JSON_DIR \o <<<<"s">>, <<"a", ".", "j", "s", "o", "n">>>>,
      PROJECT_ROOT \o <<<<"g", "e", "n", "e", "r", "a", "t", "e", "d">>, <<"x", ".", "j", "s", "o", "n">>>>,
      <<<<"x", ".", "j", "s", "o", "n">>>> }

\* the file names a client sends
FileNames ==
    { <<"a", ".", "j", "s", "o", "n">>,
      <<"b", ".", "t", "x", "t">>,
      <<"c", ".", "j", "s", "o", "n">>,
      <<".", ".", "/", "x", ".", "j", "s", "o", "n">>,
      <<"/", "x", ".", "j", "s", "o", "n">>,
      <<"s", "/", "a", ".", "j", "s", "o", "n">>,
      <<".", ".", "\\", "a", ".", "j", "s", "o", "n">> }

\* the records a file holds
StoredCourses == <<ScrapedRow(CourseCodes[1], 1)>>

\* get_latest_courses_file(): the .json files of JSON_DIR, of which the one
\* modified last is returned, and none when there is none
get_latest_courses_file(fs) ==
    {path \in fs : /\ Len(path) = Len(JSON_DIR) + 1
                   /\ SubSeq(path, 1, Len(JSON_DIR)) = JSON_DIR
                   /\ endswith(path[Len(path)], <<".", "j", "s", "o", "n">>)}

\* load_courses_from_file(filename): the file it opens, if any, and the list
\* it returns
load_courses_from_file(filename, fs) ==
    LET paths == IF filename = Absent THEN get_latest_courses_file(fs)
                 ELSE {join(JSON_DIR, filename[1])}
    IN  IF paths = {} THEN {[path |-> Absent, data |-> <<>>]}
        ELSE {IF exists(path, fs)
              THEN [path |-> Present(resolve(path)), data |-> StoredCourses]
              ELSE [path |-> Absent, data |-> <<>>] : path \in paths}

\* the files of opened with the one an endpoint opened for filename
Opening(endpoint, filename, path) ==
    IF path = Absent THEN opened
    ELSE opened \cup {[endpoint |-> endpoint, filename |-> filename, path |-> path[1]]}

\* what a file endpoint leaves alone
FileFrame ==
    /\ UNCHANGED <<files, courses_data, selection, scrapeVars>>
    /\ UNCHANGED <<genVars, conflictVars, parseVars, statusVars, annotated>>

\* GET /api/schedules/load/{filename}
load_courses_file_endpoint ==
    /\ \E filename \in FileNames :
           IF Contains(filename, <<".", ".">>) \/ Contains(filename, <<"/">>)
                  \/ Contains(filename, <<"\\">>)
           THEN /\ served' = Present(400)
                /\ UNCHANGED opened
           ELSE LET filepath == join(JSON_DIR, filename)
                IN  IF ~exists(filepath, files)
                          \/ ~endswith(filepath[Len(filepath)], <<".", "j", "s", "o", "n">>)
                    THEN /\ served' = Present(404)
                         /\ UNCHANGED opened
                    ELSE /\ served' = Present(200)
                         /\ opened' = Opening("load_courses_file_endpoint",
                                              Present(filename), Present(resolve(filepath)))
    /\ FileFrame

\* GET /api/courses, with a filename or without
get_courses ==
    /\ \E filename \in {Absent} \cup {Present(name) : name \in FileNames} :
           \E loaded \in load_courses_from_file(filename, files) :
               /\ opened' = Opening("get_courses", filename, loaded.path)
               /\ served' = Present(200)
    /\ FileFrame

\* POST /api/schedules/generate as far as the records are loaded: without
\* records it answers 404, with records it goes on as GroupByCode
generate_schedules ==
    /\ \E json_filename \in {Absent} \cup {Present(name) : name \in FileNames} :
           \E loaded \in load_courses_from_file(json_filename, files) :
               /\ opened' = Opening("generate_schedules", json_filename, loaded.path)
               /\ served' = IF loaded.data = <<>> THEN Present(404) ELSE Present(200)
    /\ FileFrame

\* the files of the server, with a .json file in JSON_DIR or without
InitFiles ==
    /\ calls = {}
    /\ courses_by_code = [p \in Calls |-> <<>>]
    /\ max_combinations = [p \in Calls |-> 1]
    /\ pc = [p \in Calls |-> "idle"]
    /\ course_codes = [p \in Calls |-> <<>>]
    /\ valid_schedules = [p \in Calls |-> <<>>]
    /\ rejected_by_conflict = [p \in Calls |-> <<>>]
    /\ current_schedule = [p \in Calls |-> <<>>]
    /\ frames = [p \in Calls |-> <<>>]
    /\ result = [p \in Calls |-> None]
    /\ annotated = [p \in Calls |-> <<>>]
    /\ examined = [p \in Calls |-> <<>>]
    /\ courses_data = [p \in Calls |-> <<>>]
    /\ selection = [p \in Calls |-> [host |-> "none", codes |-> <<>>]]
    /\ ScrapeIdle
    /\ ConflictIdle
    /\ ParseIdle
    /\ StatusIdle
    /\ files \in {StoredFiles, StoredFiles \ {JSON_DIR \o <<<<"a", ".", "j", "s", "o", "n">>>>}}
    /\ opened = {}
    /\ served = Absent

NextFiles == load_courses_file_endpoint \/ get_courses \/ generate_schedules

SpecFiles == InitFiles /\ [][NextFiles]_vars

\* the path is that of a file in JSON_DIR or in a directory of it
InJsonDir(path) ==
    /\ Len(path) > Len(JSON_DIR)
    /\ SubSeq(path, 1, Len(JSON_DIR)) = JSON_DIR

\* the name has "..", "/" or "\\" in it or is an absolute path
NamesPath(filename) ==
    \/ Contains(filename, <<".", ".">>)
    \/ Contains(filename, <<"/">>)
    \/ Contains(filename, <<"\\">>)
    \/ isabs(filename)

\* C30: no endpoint that takes a file name from the client opens a file
\* outside JSON_DIR: a name with "..", "/" or "\\" in it, or an absolute
\* path, is rejected or ignored before any file is read.
OpensWithinJsonDir ==
    \A o \in opened :
        /\ InJsonDir(o.path)
        /\ o.filename # Absent => ~NamesPath(o.filename[1])

====
